---- MODULE Spec2Model ----
(***************************************************************************)
(* Model of the tiered inference provider of the farm-visit web client:    *)
(* LLMProvider.stream (explicit model selection and the automatic          *)
(* Gemini Nano -> Llama Local -> Cloud API fallback), the shared stats     *)
(* object read through getStats(), and the backend adapters the provider   *)
(* calls (availability probes and fragment streams).                       *)
(*                                                                         *)
(* A call of stream() is an async generator: it advances only while a pull *)
(* of the caller is pending and suspends at every yield.  One action of    *)
(* the model is the code run between two such points; an awaited probe is  *)
(* folded into the step that issues it.                                    *)
(*                                                                         *)
(* Three specifications: Spec, the provider with one call at a time (the   *)
(* chat drawer's use) and checkAvailability(); SpecConc, two calls         *)
(* interleaved on the shared instance; SpecChat, the Remote adapter        *)
(* streamChat read line by line from the response body.                    *)
(*                                                                         *)
(* Further specifications take one part of the application each: the       *)
(* request built for the Cloud API, a caller keeping what getStats()       *)
(* returned, a caller abandoning a call, the web fallback of the native    *)
(* plugin and the plugin itself, the API server, the chat drawer, and the  *)
(* decoding of a response body handed over in chunks.                      *)
(***************************************************************************)
EXTENDS Integers, Sequences, FiniteSets

\* Bounds of the model
MaxFrag == 2        \* fragments one backend stream may produce
NumCalls == 2       \* generator objects the caller may hold
MaxTok == 2         \* tokens a server-side provider stream may produce
MaxSends == 2       \* send() invocations that may be under way at once
MaxFrames == 3      \* lines of one response body
MaxWords == 2       \* words of one response of the on-device model

CallIds == 1..NumCalls

\* stats: this.stats; env: what the platform answers; call: the stream()
\* generators; avail: the value checkAvailability() returned last; sc: the
\* streamChat generator; fmt: a request and what is built from it for the
\* Cloud API; snap: the object a caller got from getStats(); web: the web
\* fallback of the native Gemini Nano plugin; srv: the API server answering
\* one request; ui: the chat drawer; rx: the Remote adapter's decoding of
\* the response body; plug: the native Gemini Nano plugin
VARIABLES stats, env, call, avail, sc, fmt, snap, web, srv, ui, rx, plug
vars == <<stats, env, call, avail, sc, fmt, snap, web, srv, ui, rx, plug>>

\* the state outside the provider's stats and calls: the Remote adapter's
\* own generator, the request under construction, the caller's snapshot
\* and the plugin's web fallback
elsewhere == <<sc, fmt, snap, web, srv, ui, rx, plug>>

----------------------------------------------------------------------------
\* Vocabulary

Tiers == <<"nano", "llama", "cloud">>
TierSet == {"nano", "llama", "cloud"}

ModelOption == {"nano", "gpt-4o-mini", "llama-small", "claude-code", "auto"}

ProbeResult == {"yes", "no", "throw"}

\* the backend an explicit model option names
TierOfModel(m) ==
  CASE m = "nano" -> "nano"
    [] m = "llama-small" -> "llama"
    [] m = "gpt-4o-mini" -> "cloud"
    [] m = "claude-code" -> "cloud"
    [] OTHER -> "none"

\* the tier a value of stats.provider stands for
TierOfProvider(p) ==
  CASE p = "gemini-nano" -> "nano"
    [] p = "llama-local" -> "llama"
    [] p = "cloud-api" -> "cloud"
    [] p = "claude-api" -> "cloud"
    [] OTHER -> "none"

\* the tier name used in failure reasons and in the aggregate message
TierLabel(t) ==
  CASE t = "nano" -> "Gemini Nano"
    [] t = "llama" -> "Llama Local"
    [] t = "cloud" -> "Cloud API"
    [] OTHER -> ""

----------------------------------------------------------------------------
\* LLMProviderStats: fallbackReason is the "; "-joined text, kept as the
\* sequence of its parts; the empty sequence is the absent field.

InitStats == [provider |-> "none", model |-> "absent", fallbackReason |-> <<>>]

\* mutant: the selection records the mode, not the call's model option
SelectStats_ModelAuto(p, m) ==
  [provider |-> p, model |-> "auto", fallbackReason |-> <<>>]

\* this.stats = { provider, model }: a fresh object, no fallbackReason
SelectStats(p, m) == [provider |-> p, model |-> m, fallbackReason |-> <<>>]

\* this.stats.fallbackReason = `Gemini Nano: ${err.message}`
SetReason(s, r) == [s EXCEPT !.fallbackReason = <<r>>]

\* this.stats.fallbackReason = old ? `${old}; ${r}` : r
AddReason(s, r) == [s EXCEPT !.fallbackReason = Append(@, r)]

Reason(label, what) == [tier |-> label, what |-> what]

\* getStats(): a copy of the stats object
getStats == stats

----------------------------------------------------------------------------
\* Errors

NoErr == [kind |-> "none", prefix |-> "", msg |-> <<>>, reasons |-> <<>>, lines |-> <<>>]

\* an error raised by a backend's stream
StreamErr(t) ==
  [kind |-> "backend", prefix |-> "", msg |-> <<"stream error", t>>,
   reasons |-> <<>>, lines |-> <<>>]

\* an error raised by a backend's availability probe
ProbeErr(t) ==
  [kind |-> "backend", prefix |-> "", msg |-> <<"probe error", t>>,
   reasons |-> <<>>, lines |-> <<>>]

\* throw new Error(text)
PlainErr(text) ==
  [kind |-> "plain", prefix |-> "", msg |-> <<text>>, reasons |-> <<>>, lines |-> <<>>]

\* throw new Error(`${prefix}: ${err.message}`)
WrappedErr(prefix, e) ==
  [kind |-> "wrapped", prefix |-> prefix, msg |-> e.msg, reasons |-> <<>>, lines |-> <<>>]

\* the aggregate message's line for one tier
Line(label, outcome) == [tier |-> label, outcome |-> outcome]

\* the third line of the aggregate message, from navigator.onLine and the key
CloudLine(e) ==
  IF e.online
    THEN IF e.hasKey THEN Line("Cloud API", "Failed")
                     ELSE Line("Cloud API", "Skipped (no API key provided)")
    ELSE Line("Cloud API", "Skipped (device offline)")

\* mutant: the message lists the tiers tried without the Llama Local line
AggregateErr_TwoLines(s, e) ==
  [kind |-> "aggregate", prefix |-> "No LLM provider available", msg |-> <<>>,
   reasons |-> IF s.fallbackReason # <<>> THEN s.fallbackReason
               ELSE <<Reason("", <<"All providers failed">>)>>,
   lines |-> <<Line("Gemini Nano", "Not available"), CloudLine(e)>>]

\* the "No LLM provider available" error, built from the stats as they are
\* when the message is composed
AggregateErr(s, e) ==
  [kind |-> "aggregate", prefix |-> "No LLM provider available", msg |-> <<>>,
   reasons |-> IF s.fallbackReason # <<>> THEN s.fallbackReason
               ELSE <<Reason("", <<"All providers failed">>)>>,
   lines |-> <<Line("Gemini Nano", "Not available"),
               Line("Llama Local", "Not available"),
               CloudLine(e)>>]

----------------------------------------------------------------------------
\* The environment the provider queries: Capacitor.isNativePlatform(),
\* geminiNano.isAvailable(), llamaLocal.checkAvailability(),
\* navigator.onLine and getUserApiKey().

Envs ==
  [native : BOOLEAN, nano : ProbeResult, llama : ProbeResult,
   online : BOOLEAN, hasKey : BOOLEAN]

----------------------------------------------------------------------------
\* One stream() call: the generator's position, its input.model, whether a
\* pull of the caller is pending, the fragments taken from the running
\* backend stream, what happened between the call, the backends and the
\* caller (log: probes called, streams started, fragments re-yielded, errors
\* raised by a stream) and the error the call raised; superseded tells that
\* another call was started on the provider while this one was in flight,
\* pulls counts the caller's next() calls.

Ev(op, t, n) == [op |-> op, tier |-> t, n |-> n]

IdleCall ==
  [pc |-> "idle", model |-> "auto", pulled |-> FALSE, pos |-> 0,
   log |-> <<>>, err |-> NoErr, superseded |-> FALSE, pulls |-> 0,
   cancelled |-> FALSE]

NewCall(m) == [IdleCall EXCEPT !.pc = "created", !.model = m]

\* mutant: auto mode enters at the second tier
EntryOf_LlamaFirst(m) ==
  CASE m = "nano" -> "x_nano"
    [] m = "llama-small" -> "x_llama"
    [] m = "gpt-4o-mini" -> "x_gpt"
    [] m = "claude-code" -> "x_claude"
    [] OTHER -> "a_llama"

\* the first statement a call reaches for its input.model
EntryOf(m) ==
  CASE m = "nano" -> "x_nano"
    [] m = "llama-small" -> "x_llama"
    [] m = "gpt-4o-mini" -> "x_gpt"
    [] m = "claude-code" -> "x_claude"
    [] OTHER -> "a_nano"

Goto(r, label) == [r EXCEPT !.pc = label]

\* mutant: both probes are called together, as checkAvailability does
Probed_Together(r, t) ==
  [r EXCEPT !.log = @ \o <<Ev("avail", "nano", 0), Ev("avail", "llama", 0)>>]

\* the call of a backend's availability probe
Probed(r, t) == [r EXCEPT !.log = Append(@, Ev("avail", t, 0))]

\* the call of a backend's stream (yield* starts it)
Begin(r, t, label) ==
  [r EXCEPT !.pc = label, !.pos = 0, !.log = Append(@, Ev("start", t, 0))]

\* mutant: a fragment is taken from the backend and kept, and the call
\* runs on to take the next one
Yield_ReadsAhead(r, t) ==
  [r EXCEPT !.pos = @ + 1, !.log = Append(@, Ev("yield", t, r.pos + 1))]

\* mutant: a fragment is taken from the backend and not handed on
Yield_Drops(r, t) == [r EXCEPT !.pos = @ + 1]

\* one fragment of the backend re-yielded to the caller
Yield(r, t) ==
  [r EXCEPT !.pos = @ + 1, !.log = Append(@, Ev("yield", t, r.pos + 1)),
            !.pulled = FALSE]

\* the running backend stream raises, after r.pos fragments
Raised(r, t) == [r EXCEPT !.log = Append(@, Ev("error", t, r.pos))]

\* mutant: the generator completes and leaves an error behind as well
Finish_AlsoRaises(r) ==
  [r EXCEPT !.pc = "done", !.err = StreamErr(r.pos), !.pulled = FALSE]

\* return: the generator completes
Finish(r) == [r EXCEPT !.pc = "done", !.pulled = FALSE]

\* throw: the error reaches the caller's pending pull
Fail(r, e) == [r EXCEPT !.pc = "failed", !.err = e, !.pulled = FALSE]

Running(c, label) == call[c].pc = label /\ call[c].pulled

Terminal == {"done", "failed"}

----------------------------------------------------------------------------
\* The caller

\* llmProvider.stream({...}): a generator object is created; nothing of
\* the body runs before the first pull.  The chat drawer keeps one call at
\* a time.
StartCall(c, m) ==
  /\ \A d \in CallIds : call[d].pc = "idle"
  /\ call' = [call EXCEPT ![c] = NewCall(m)]
  /\ UNCHANGED <<stats, env, avail, elsewhere>>

\* for await (const chunk of generator): the next pull
Pull(c) ==
  /\ call[c].pc \notin Terminal \cup {"idle"}
  /\ ~call[c].pulled
  /\ call' = [call EXCEPT ![c].pulled = TRUE, ![c].pulls = @ + 1]
  /\ UNCHANGED <<stats, env, avail, elsewhere>>

\* mutant: the return injected at the suspended yield is taken for a failure
\* of the tier and the call goes on to the tiers below
Return_FallsBack(r) ==
  [r EXCEPT !.pc = IF r.pc = "a_nano_stream" THEN "a_llama" ELSE "a_cloud",
            !.pulled = TRUE, !.cancelled = TRUE]

\* generator.return(): the generator completes where it was suspended, no
\* catch block of stream() runs
Return(r) == [r EXCEPT !.pc = "done", !.cancelled = TRUE]

\* the caller leaves its for await loop before the stream has ended
Cancel(c) ==
  /\ call[c].pc \notin Terminal \cup {"idle"}
  /\ ~call[c].pulled
  /\ call' = [call EXCEPT ![c] = Return(call[c])]
  /\ UNCHANGED <<stats, env, avail, elsewhere>>

\* the loop has ended (normally or by the error) and the generator is dropped
Release(c) ==
  /\ call[c].pc \in Terminal
  /\ call' = [call EXCEPT ![c] = IdleCall]
  /\ UNCHANGED <<stats, env, avail, elsewhere>>

\* between calls the device may go on or off line, a key may be stored or
\* removed, a model may be installed
ChangeEnv ==
  /\ \A d \in CallIds : call[d].pc = "idle"
  /\ env' \in Envs \ {env}
  /\ UNCHANGED <<stats, call, avail, elsewhere>>

----------------------------------------------------------------------------
\* LLMProvider.stream: explicit model selection

\* const selectedModel = input.model || 'auto', and the branch it takes
Dispatch(c) ==
  /\ Running(c, "created")
  /\ call' = [call EXCEPT ![c] = Goto(call[c], EntryOf(call[c].model))]
  /\ UNCHANGED <<stats, env, avail, elsewhere>>

\* mutant: the catch of an explicit branch falls through to the lower tiers
XCatch_FallsBack(r, prefix, e) == Goto(r, "a_llama")

\* catch (err) { throw new Error(`${prefix}: ${err.message}`) } of an
\* explicit branch
XCatch(r, prefix, e) == Fail(r, WrappedErr(prefix, e))

\* one pull forwarded to the selected backend's stream by yield*: the next
\* fragment, the end of the stream, or an error raised by the stream
XStreamStep(c, label, t, prefix) ==
  /\ Running(c, label)
  /\ \/ /\ call[c].pos < MaxFrag
        /\ call' = [call EXCEPT ![c] = Yield(call[c], t)]
     \/ call' = [call EXCEPT ![c] = Finish(call[c])]
     \/ call' = [call EXCEPT ![c] = XCatch(Raised(call[c], t), prefix, StreamErr(t))]
  /\ UNCHANGED <<stats, env, avail, elsewhere>>

\* selectedModel === 'nano': platform check, probe, selection
XNanoProbe(c) ==
  /\ Running(c, "x_nano")
  /\ LET r == call[c]
         p == Probed(r, "nano")
         prefix == "Gemini Nano unavailable"
     IN IF ~env.native
          THEN /\ call' = [call EXCEPT ![c] =
                             XCatch(r, prefix, PlainErr("Gemini Nano not available"))]
               /\ UNCHANGED stats
          ELSE CASE env.nano = "yes" ->
                      /\ stats' = SelectStats("gemini-nano", "nano")
                      /\ call' = [call EXCEPT ![c] = Begin(p, "nano", "x_nano_stream")]
                 [] env.nano = "no" ->
                      /\ call' = [call EXCEPT ![c] =
                                    XCatch(p, prefix, PlainErr("Gemini Nano not available"))]
                      /\ UNCHANGED stats
                 [] OTHER ->
                      /\ call' = [call EXCEPT ![c] = XCatch(p, prefix, ProbeErr("nano"))]
                      /\ UNCHANGED stats
  /\ UNCHANGED <<env, avail, elsewhere>>

XNanoStream(c) == XStreamStep(c, "x_nano_stream", "nano", "Gemini Nano unavailable")

\* selectedModel === 'llama-small'
XLlamaProbe(c) ==
  /\ Running(c, "x_llama")
  /\ LET p == Probed(call[c], "llama")
         prefix == "Llama Local unavailable"
     IN CASE env.llama = "yes" ->
               /\ stats' = SelectStats("llama-local", "llama-small")
               /\ call' = [call EXCEPT ![c] = Begin(p, "llama", "x_llama_stream")]
          [] env.llama = "no" ->
               /\ call' = [call EXCEPT ![c] =
                             XCatch(p, prefix, PlainErr("Llama Local not available"))]
               /\ UNCHANGED stats
          [] OTHER ->
               /\ call' = [call EXCEPT ![c] = XCatch(p, prefix, ProbeErr("llama"))]
               /\ UNCHANGED stats
  /\ UNCHANGED <<env, avail, elsewhere>>

XLlamaStream(c) == XStreamStep(c, "x_llama_stream", "llama", "Llama Local unavailable")

\* the preconditions of the two cloud options: online, then a stored key;
\* then the selection and the start of streamChat
XCloudPre(c, label, next, provider, offlineMsg, keyMsg) ==
  /\ Running(c, label)
  /\ LET r == call[c]
     IN IF ~env.online
          THEN /\ call' = [call EXCEPT ![c] = Fail(r, PlainErr(offlineMsg))]
               /\ UNCHANGED stats
          ELSE IF ~env.hasKey
                 THEN /\ call' = [call EXCEPT ![c] = Fail(r, PlainErr(keyMsg))]
                      /\ UNCHANGED stats
                 ELSE /\ stats' = SelectStats(provider, r.model)
                      /\ call' = [call EXCEPT ![c] = Begin(r, "cloud", next)]
  /\ UNCHANGED <<env, avail, elsewhere>>

\* selectedModel === 'gpt-4o-mini'
XGptPre(c) ==
  XCloudPre(c, "x_gpt", "x_gpt_stream", "cloud-api",
            "ChatGPT 4o mini requires internet connection",
            "ChatGPT 4o mini requires API key")

XGptStream(c) == XStreamStep(c, "x_gpt_stream", "cloud", "ChatGPT 4o mini error")

\* selectedModel === 'claude-code'
XClaudePre(c) ==
  XCloudPre(c, "x_claude", "x_claude_stream", "claude-api",
            "Claude Code requires internet connection",
            "Claude Code requires API key")

XClaudeStream(c) == XStreamStep(c, "x_claude_stream", "cloud", "Claude Code error")

----------------------------------------------------------------------------
\* LLMProvider.stream: auto mode (Gemini Nano, then Llama Local, then Cloud)

\* mutant: the catch of the first tier also names the tier as the provider
ANanoCatchStats_NamesProvider(s, e) ==
  [provider |-> "gemini-nano", model |-> "auto",
   fallbackReason |-> <<Reason("Gemini Nano", e.msg)>>]

\* this.stats.fallbackReason = `Gemini Nano: ${err.message}`
ANanoCatchStats(s, e) == SetReason(s, Reason("Gemini Nano", e.msg))

\* fallbackReason extended by `Llama Local: ${err.message}`
ALlamaCatchStats(s, e) == AddReason(s, Reason("Llama Local", e.msg))

\* fallbackReason extended by 'Cloud API skipped (no API key provided)'
CloudSkipStats(s) ==
  AddReason(s, Reason("Cloud API", <<"skipped (no API key provided)">>))

\* fallbackReason extended by `Cloud API: ${err.message}`
ACloudCatchStats(s, e) == AddReason(s, Reason("Cloud API", e.msg))

\* fallbackReason extended by 'Device is offline'
OfflineStats(s) == AddReason(s, Reason("", <<"Device is offline">>))

\* mutant: only the provider field is reset
AllFailedStats_KeepsReason(s) == [s EXCEPT !.provider = "none"]

\* "All providers failed": this.stats = { provider: 'none' }
AllFailedStats(s) == [provider |-> "none", model |-> "absent", fallbackReason |-> <<>>]

\* mutant: the first tier is probed without the platform check, as
\* checkAvailability does
ANanoProbe_NoPlatformCheck(c) ==
  /\ Running(c, "a_nano")
  /\ LET p == Probed(call[c], "nano")
     IN CASE env.nano = "yes" ->
               /\ stats' = SelectStats("gemini-nano", "auto")
               /\ call' = [call EXCEPT ![c] = Begin(p, "nano", "a_nano_stream")]
          [] env.nano = "no" ->
               /\ call' = [call EXCEPT ![c] = Goto(p, "a_llama")]
               /\ UNCHANGED stats
          [] OTHER ->
               /\ stats' = ANanoCatchStats(stats, ProbeErr("nano"))
               /\ call' = [call EXCEPT ![c] = Goto(p, "a_llama")]
  /\ UNCHANGED <<env, avail, elsewhere>>

\* Priority 1: platform check, probe, selection; a probe that returns false
\* leaves the try block without a word, one that raises lands in the catch
ANanoProbe(c) ==
  /\ Running(c, "a_nano")
  /\ LET r == call[c]
         p == Probed(r, "nano")
     IN IF ~env.native
          THEN /\ call' = [call EXCEPT ![c] = Goto(r, "a_llama")]
               /\ UNCHANGED stats
          ELSE CASE env.nano = "yes" ->
                      /\ stats' = SelectStats("gemini-nano", "auto")
                      /\ call' = [call EXCEPT ![c] = Begin(p, "nano", "a_nano_stream")]
                 [] env.nano = "no" ->
                      /\ call' = [call EXCEPT ![c] = Goto(p, "a_llama")]
                      /\ UNCHANGED stats
                 [] OTHER ->
                      /\ stats' = ANanoCatchStats(stats, ProbeErr("nano"))
                      /\ call' = [call EXCEPT ![c] = Goto(p, "a_llama")]
  /\ UNCHANGED <<env, avail, elsewhere>>

\* mutant: the first tier's stream error is wrapped and thrown to the caller
ANanoStream_Rethrows(c) ==
  XStreamStep(c, "a_nano_stream", "nano", "Gemini Nano unavailable")

\* yield* geminiNano.stream(...) inside the try block: an error of the
\* stream lands in the same catch as a failed probe, whatever was yielded
ANanoStream(c) ==
  /\ Running(c, "a_nano_stream")
  /\ \/ /\ call[c].pos < MaxFrag
        /\ call' = [call EXCEPT ![c] = Yield(call[c], "nano")]
        /\ UNCHANGED stats
     \/ /\ call' = [call EXCEPT ![c] = Finish(call[c])]
        /\ UNCHANGED stats
     \/ /\ stats' = ANanoCatchStats(stats, StreamErr("nano"))
        /\ call' = [call EXCEPT ![c] = Goto(Raised(call[c], "nano"), "a_llama")]
  /\ UNCHANGED <<env, avail, elsewhere>>

\* mutant: when the Llama Local tier is done with, it is tried once more
LlamaPassed_Retry(r, s) == <<Goto(r, "a_llama"), s>>

\* after the Llama Local tier: if (navigator.onLine) runs on to the import
\* of the key accessor, else the offline reason is recorded, the stats are
\* reset and the call runs on to the import before the message is built
LlamaPassed(r, s) ==
  IF env.online
    THEN <<Goto(r, "a_cloud"), s>>
    ELSE <<Goto(r, "a_fail"), AllFailedStats(OfflineStats(s))>>

\* Priority 2: probe, selection
ALlamaProbe(c) ==
  /\ Running(c, "a_llama")
  /\ LET p == Probed(call[c], "llama")
     IN CASE env.llama = "yes" ->
               /\ stats' = SelectStats("llama-local", "auto")
               /\ call' = [call EXCEPT ![c] = Begin(p, "llama", "a_llama_stream")]
          [] env.llama = "no" ->
               /\ call' = [call EXCEPT ![c] = LlamaPassed(p, stats)[1]]
               /\ stats' = LlamaPassed(p, stats)[2]
          [] OTHER ->
               LET s == ALlamaCatchStats(stats, ProbeErr("llama"))
               IN /\ call' = [call EXCEPT ![c] = LlamaPassed(p, s)[1]]
                  /\ stats' = LlamaPassed(p, s)[2]
  /\ UNCHANGED <<env, avail, elsewhere>>

ALlamaStream(c) ==
  /\ Running(c, "a_llama_stream")
  /\ \/ /\ call[c].pos < MaxFrag
        /\ call' = [call EXCEPT ![c] = Yield(call[c], "llama")]
        /\ UNCHANGED stats
     \/ /\ call' = [call EXCEPT ![c] = Finish(call[c])]
        /\ UNCHANGED stats
     \/ LET s == ALlamaCatchStats(stats, StreamErr("llama"))
            r == Raised(call[c], "llama")
        IN /\ call' = [call EXCEPT ![c] = LlamaPassed(r, s)[1]]
           /\ stats' = LlamaPassed(r, s)[2]
  /\ UNCHANGED <<env, avail, elsewhere>>

\* mutant: the Cloud API is tried without a key (the server may hold one)
ACloud_NoKeyCheck(c) ==
  /\ Running(c, "a_cloud")
  /\ stats' = SelectStats("cloud-api", "auto")
  /\ call' = [call EXCEPT ![c] = Begin(call[c], "cloud", "a_cloud_stream")]
  /\ UNCHANGED <<env, avail, elsewhere>>

\* Priority 3, online: without a key the tier is skipped, with one it is
\* selected and streamChat is started
ACloud(c) ==
  /\ Running(c, "a_cloud")
  /\ IF ~env.hasKey
       THEN /\ stats' = AllFailedStats(CloudSkipStats(stats))
            /\ call' = [call EXCEPT ![c] = Goto(call[c], "a_fail")]
       ELSE /\ stats' = SelectStats("cloud-api", "auto")
            /\ call' = [call EXCEPT ![c] = Begin(call[c], "cloud", "a_cloud_stream")]
  /\ UNCHANGED <<env, avail, elsewhere>>

ACloudStream(c) ==
  /\ Running(c, "a_cloud_stream")
  /\ \/ /\ call[c].pos < MaxFrag
        /\ call' = [call EXCEPT ![c] = Yield(call[c], "cloud")]
        /\ UNCHANGED stats
     \/ /\ call' = [call EXCEPT ![c] = Finish(call[c])]
        /\ UNCHANGED stats
     \/ /\ stats' = AllFailedStats(ACloudCatchStats(stats, StreamErr("cloud")))
        /\ call' = [call EXCEPT ![c] = Goto(Raised(call[c], "cloud"), "a_fail")]
  /\ UNCHANGED <<env, avail, elsewhere>>

\* the aggregate message is composed and thrown
AFail(c) ==
  /\ Running(c, "a_fail")
  /\ call' = [call EXCEPT ![c] = Fail(call[c], AggregateErr(stats, env))]
  /\ UNCHANGED <<stats, env, avail, elsewhere>>

----------------------------------------------------------------------------
\* LLMProvider.checkAvailability

\* nothing returned yet
NoAvail ==
  [returned |-> FALSE, geminiNano |-> FALSE, llamaLocal |-> FALSE,
   cloudAvailable |-> FALSE]

\* results: both probes are called (without a platform check) and a probe
\* that raises leaves its entry false; cloudAvailable is navigator.onLine
AvailResult(e) ==
  [returned |-> TRUE, geminiNano |-> e.nano = "yes",
   llamaLocal |-> e.llama = "yes", cloudAvailable |-> e.online]

\* mutant: the check records the best backend found as the provider
CheckAvailability_RecordsProvider ==
  /\ avail' = AvailResult(env)
  /\ stats' = [stats EXCEPT !.provider =
                 IF env.nano = "yes" THEN "gemini-nano"
                 ELSE IF env.llama = "yes" THEN "llama-local" ELSE "none"]
  /\ UNCHANGED <<env, call, elsewhere>>

\* checkAvailability(): avail is the value it returned last
CheckAvailability ==
  /\ avail' = AvailResult(env)
  /\ UNCHANGED <<stats, env, call, elsewhere>>

----------------------------------------------------------------------------
\* The Remote adapter: streamChat, an async generator over the response
\* body of POST /chat.  A chunk read from the body is taken as the complete
\* lines it adds to the buffer.

\* Bounds of the adapter's model
MaxLines == 2       \* complete lines one chunk may hold
MaxReads == 2       \* chunks the transport may deliver

\* a line of the event stream: a data frame with a token, a data frame
\* that holds no content (JSON without one, or an empty payload), the
\* [DONE] marker, a data frame whose payload is text that is not JSON, and
\* a line that is no data frame
LineKinds == {"token", "empty", "done", "bad", "other"}

Chunks == UNION {[1..n -> LineKinds] : n \in 0..MaxLines}

IdleChat ==
  [pc |-> "idle", pulled |-> FALSE, reader |-> "none", releases |-> 0,
   lines |-> <<>>, reads |-> 0, out |-> <<>>, err |-> "none",
   exit |-> "none", stalled |-> FALSE]

\* reader.releaseLock() of the finally block
ReleaseLock(r) == [r EXCEPT !.reader = "released", !.releases = @ + 1]

\* if (done) break: the try block is left, then the function ends
ExitEnd(r) ==
  ReleaseLock([r EXCEPT !.pc = "done", !.pulled = FALSE, !.exit = "end"])

\* mutant: the marker returns from the function past the release
ExitMarker_NoRelease(r) ==
  [r EXCEPT !.pc = "done", !.pulled = FALSE, !.exit = "marker"]

\* mutant: the marker is noted and the loop over the lines goes on
ExitMarker_GoesOn(r) == [r EXCEPT !.exit = "marker"]

\* data === '[DONE]': return inside the try block
ExitMarker(r) ==
  ReleaseLock([r EXCEPT !.pc = "done", !.pulled = FALSE, !.exit = "marker"])

\* reader.read() rejects inside the try block
ExitReadError(r) ==
  ReleaseLock([r EXCEPT !.pc = "failed", !.err = "read", !.pulled = FALSE,
                        !.exit = "error"])

\* the consumer's return() resumes the generator at its yield with a return
\* completion: the finally block runs
ExitReturn(r) == ReleaseLock([r EXCEPT !.pc = "returned", !.exit = "return"])

ChatTerminal == {"done", "failed", "returned"}

ChatRunning(label) == sc.pc = label /\ sc.pulled

\* streamChat(messages, meta): the generator object; the body has not run
ScStart ==
  /\ sc.pc = "idle"
  /\ sc' = [IdleChat EXCEPT !.pc = "created"]
  /\ UNCHANGED <<stats, env, call, avail, fmt, snap, web, srv, ui, rx, plug>>

\* next() of the consumer: a for await loop, or the yield* of
\* LLMProvider.stream handing its caller's pull on
ScPull ==
  /\ sc.pc \in {"created", "lines"}
  /\ ~sc.pulled
  /\ sc' = [sc EXCEPT !.pulled = TRUE]
  /\ UNCHANGED <<stats, env, call, avail, fmt, snap, web, srv, ui, rx, plug>>

\* fetch and the checks of the response: a network error or timeout, a
\* status that is not ok and a missing body throw before a reader exists;
\* otherwise response.body.getReader() locks the body
ScFetch ==
  /\ ChatRunning("created")
  /\ ~sc.stalled
  /\ \/ sc' = [sc EXCEPT !.pc = "reading", !.reader = "locked"]
     \/ \E e \in {"network", "status", "no body"} :
          sc' = [sc EXCEPT !.pc = "failed", !.err = e, !.pulled = FALSE]
  /\ UNCHANGED <<stats, env, call, avail, fmt, snap, web, srv, ui, rx, plug>>

\* await reader.read(): a chunk, the end of the body, or a rejection
ScRead ==
  /\ ChatRunning("reading")
  /\ ~sc.stalled
  /\ \/ /\ sc.reads < MaxReads
        /\ \E ch \in Chunks :
             sc' = [sc EXCEPT !.pc = "lines", !.lines = ch, !.reads = @ + 1]
     \/ sc' = ExitEnd(sc)
     \/ sc' = ExitReadError(sc)
  /\ UNCHANGED <<stats, env, call, avail, fmt, snap, web, srv, ui, rx, plug>>

\* the generator is waiting for the network: for the response of fetch or
\* for the next chunk of the body
Awaiting == ChatRunning("created") \/ ChatRunning("reading")

\* the server stops responding: nothing more arrives on the connection
ScStall ==
  /\ Awaiting
  /\ ~sc.stalled
  /\ sc' = [sc EXCEPT !.stalled = TRUE]
  /\ UNCHANGED <<stats, env, call, avail, fmt, snap, web, srv, ui, rx, plug>>

\* what the caller gets when the signal fires: a rejected fetch lands in
\* the catch, which throws 'Request timeout. ...' if the rejection is named
\* AbortError and `Network error: ${message}` if it is named TimeoutError
\* (the platform decides); a rejected read is thrown as it is
TimeoutErrors(r) ==
  IF r.pc = "created"
    THEN {"Request timeout", "Network error: timed out"}
    ELSE {"TimeoutError: timed out"}

\* the pending operation is rejected with the signal's timeout error: the
\* fetch in its try block, a read inside the try/finally of the loop
TimedOut(r, e) ==
  IF r.pc = "created"
    THEN [r EXCEPT !.pc = "failed", !.err = e, !.pulled = FALSE]
    ELSE ReleaseLock([r EXCEPT !.pc = "failed", !.err = e,
                               !.pulled = FALSE, !.exit = "error"])

\* mutant: the signal covers the fetch only, not the reading of the body
ScTimeout_FetchOnly ==
  /\ ChatRunning("created")
  /\ \E e \in TimeoutErrors(sc) : sc' = TimedOut(sc, e)
  /\ UNCHANGED <<stats, env, call, avail, fmt, snap, web, srv, ui, rx, plug>>

\* signal: AbortSignal.timeout(30000) fires while the generator waits for
\* the network; the signal given to fetch covers the response body too
ScTimeout ==
  /\ Awaiting
  /\ \E e \in TimeoutErrors(sc) : sc' = TimedOut(sc, e)
  /\ UNCHANGED <<stats, env, call, avail, fmt, snap, web, srv, ui, rx, plug>>

\* for (const line of lines): the next line of the chunk; after the last
\* one the while loop reads again
ScLine ==
  /\ ChatRunning("lines")
  /\ IF sc.lines = <<>>
       THEN sc' = [sc EXCEPT !.pc = "reading"]
       ELSE LET l == Head(sc.lines)
                rest == [sc EXCEPT !.lines = Tail(@)]
            IN CASE l = "done" -> sc' = ExitMarker(rest)
                 [] l \in {"token", "bad"} ->
                      sc' = [rest EXCEPT !.out = Append(@, l), !.pulled = FALSE]
                 [] OTHER -> sc' = rest
  /\ UNCHANGED <<stats, env, call, avail, fmt, snap, web, srv, ui, rx, plug>>

\* return() of the consumer, which a for await loop calls when it is left
\* early and which yield* hands on when LLMProvider.stream's own consumer
\* leaves: before the first pull the body never runs, at a yield the
\* generator is resumed with a return completion
ScReturn ==
  /\ ~sc.pulled
  /\ \/ /\ sc.pc = "created"
        /\ sc' = [sc EXCEPT !.pc = "returned"]
     \/ /\ sc.pc = "lines"
        /\ sc' = ExitReturn(sc)
  /\ UNCHANGED <<stats, env, call, avail, fmt, snap, web, srv, ui, rx, plug>>

\* the generator object is dropped
ScDrop ==
  /\ sc.pc \in ChatTerminal
  /\ sc' = IdleChat
  /\ UNCHANGED <<stats, env, call, avail, fmt, snap, web, srv, ui, rx, plug>>

\* a browser that is online with a key stored
ChatEnv ==
  [native |-> FALSE, nano |-> "no", llama |-> "no", online |-> TRUE,
   hasKey |-> TRUE]

----------------------------------------------------------------------------
\* The request sent to the Cloud API: the image list taken from the visit
\* context and the message list built around it.  A photo is a base64
\* string, a data URL or a bare payload; the empty string stands for a
\* missing value (null, undefined and '' are all falsy).

\* Bound of the request's model
MaxVisits == 2      \* entries of visitContext.allVisits

DataUrlPhotos == {"data:image/png;base64,A"}
RawPhotos == {"B"}
Photos == DataUrlPhotos \cup RawPhotos
PhotoOrNone == Photos \cup {""}

Visits == [photo_data : PhotoOrNone]

\* input.visitContext: current.photo, allVisits (hasAll: the field is
\* there) and latest.photo_data
Contexts ==
  {x \in [current : PhotoOrNone, hasAll : BOOLEAN,
          allVisits : UNION {[1..n -> Visits] : n \in 0..MaxVisits},
          latest : PhotoOrNone] :
     ~x.hasAll => x.allVisits = <<>>}

\* the models whose branch builds a message list for streamChat
RemoteModels == {"gpt-4o-mini", "claude-code", "auto"}

Includes(seq, x) == \E i \in DOMAIN seq : seq[i] = x

\* for (const visit of allVisits) if (visit.photo_data &&
\* !imageDataUrls.includes(visit.photo_data)) imageDataUrls.push(...)
RECURSIVE PushVisits(_, _)
PushVisits(acc, visits) ==
  IF visits = <<>> THEN acc
  ELSE LET p == Head(visits).photo_data
       IN PushVisits(IF p # "" /\ ~Includes(acc, p) THEN Append(acc, p) ELSE acc,
                     Tail(visits))

\* const imageDataUrls: current.photo, then the saved visits' photos, then
\* latest.photo_data if the list is still empty
imageDataUrls(x) ==
  LET cur == IF x.current # "" THEN <<x.current>> ELSE <<>>
      all == IF x.hasAll THEN PushVisits(cur, x.allVisits) ELSE cur
  IN IF Len(all) = 0 /\ x.latest # "" THEN <<x.latest>> ELSE all

\* imageDataUrl.startsWith('data:') ? imageDataUrl
\*   : `data:image/jpeg;base64,${imageDataUrl}`
DataUrl(p) ==
  IF p \in DataUrlPhotos THEN [prefix |-> "", body |-> p]
  ELSE [prefix |-> "data:image/jpeg;base64,", body |-> p]

NoImage == [prefix |-> "", body |-> ""]

TextBlock == [type |-> "text", image |-> NoImage]

\* { type: 'image_url', image_url: { url } } and, for Claude, { type:
\* 'image', source: { type: 'base64', media_type, data } } cut from the URL
ImageBlock(kind, p) == [type |-> kind, image |-> DataUrl(p)]

\* the content array: the text block, then one block per image
ContentBlocks(kind, images) ==
  <<TextBlock>> \o [i \in DOMAIN images |-> ImageBlock(kind, images[i])]

\* a message content: the plain string userContent, or a list of blocks
StringContent == [form |-> "string", blocks |-> <<>>]
ListContent(blocks) == [form |-> "list", blocks |-> blocks]

Message(role, content) == [role |-> role, content |-> content]

\* mutant: the content array is sent whatever the number of images
Messages_AlwaysList(m, images) ==
  <<Message("system", StringContent),
    Message("user", ListContent(ContentBlocks(
       IF m = "claude-code" THEN "image" ELSE "image_url", images)))>>

\* const messages of the three branches: the system prompt (never empty),
\* then the user entry; gpt-4o-mini and auto send the content array only
\* if there is an image, claude-code always
Messages(m, images) ==
  IF m = "claude-code"
    THEN <<Message("system", StringContent),
           Message("user", ListContent(ContentBlocks("image", images)))>>
    ELSE <<Message("system", StringContent),
           Message("user",
             IF Len(images) > 0
               THEN ListContent(ContentBlocks("image_url", images))
               ELSE StringContent)>>

NoContext == [current |-> "", hasAll |-> FALSE, allVisits |-> <<>>, latest |-> ""]

Request(x) ==
  [built |-> FALSE, ctx |-> x, model |-> "auto", images |-> <<>>,
   messages |-> <<>>]

NoRequest == Request(NoContext)

\* a stream() call with a visit context arrives at a Cloud API branch
NewRequest ==
  /\ fmt.built
  /\ \E x \in Contexts : fmt' = Request(x)
  /\ UNCHANGED <<stats, env, call, avail, sc, snap, web, srv, ui, rx, plug>>

\* the branch builds the image list and the messages handed to streamChat
BuildRequest ==
  /\ ~fmt.built
  /\ \E m \in RemoteModels :
       LET images == imageDataUrls(fmt.ctx)
       IN fmt' = [fmt EXCEPT !.built = TRUE, !.model = m, !.images = images,
                             !.messages = Messages(m, images)]
  /\ UNCHANGED <<stats, env, call, avail, sc, snap, web, srv, ui, rx, plug>>

----------------------------------------------------------------------------
\* The object a caller holds after getStats(): value is what it held when
\* handed out or was given by the caller since; shared tells whether it is
\* the provider's own stats object.

NoSnapshot == [held |-> FALSE, shared |-> FALSE, value |-> InitStats]

\* what the holder reads from the object
Seen == IF snap.shared THEN stats ELSE snap.value

Providers == {"gemini-nano", "llama-local", "cloud-api", "claude-api", "none"}

\* mutant: getStats() hands out this.stats itself
TakeSnapshot_SameObject ==
  /\ snap' = [held |-> TRUE, shared |-> TRUE, value |-> stats]
  /\ UNCHANGED <<stats, env, call, avail, sc, fmt, web, srv, ui, rx, plug>>

\* const stats = llmProvider.getStats(): return { ...this.stats }
TakeSnapshot ==
  /\ snap' = [held |-> TRUE, shared |-> FALSE, value |-> getStats]
  /\ UNCHANGED <<stats, env, call, avail, sc, fmt, web, srv, ui, rx, plug>>

\* the holder assigns to a field of the object it was handed
EditSnapshot ==
  /\ snap.held
  /\ \E p \in Providers \ {Seen.provider} :
       IF snap.shared
         THEN /\ stats' = [stats EXCEPT !.provider = p]
              /\ UNCHANGED snap
         ELSE /\ snap' = [snap EXCEPT !.value.provider = p]
              /\ UNCHANGED stats
  /\ UNCHANGED <<env, call, avail, sc, fmt, web, srv, ui, rx, plug>>

----------------------------------------------------------------------------
\* GeminiNanoNativeWeb, the web implementation of the native plugin: the
\* page it is loaded in (is there a window, its host name, NODE_ENV of the
\* build), the mockEnabled flag its constructor computes and what its
\* methods returned last.

Hosts == {"localhost", "127.0.0.1", "farm.example.org"}
NodeEnvs == {"development", "production"}

Pages == [hasWindow : BOOLEAN, hostname : Hosts, nodeEnv : NodeEnvs]

Unmade(page) ==
  [made |-> FALSE, page |-> page, mockEnabled |-> FALSE,
   available |-> "not asked", status |-> "", initialized |-> "not asked",
   generated |-> "not asked", streamed |-> "not asked"]

NoPlugin ==
  Unmade([hasWindow |-> TRUE, hostname |-> "farm.example.org",
          nodeEnv |-> "production"])

\* constructor: mockEnabled
WebConstruct ==
  /\ ~web.made
  /\ web' = [web EXCEPT
       !.made = TRUE,
       !.mockEnabled =
          /\ web.page.hasWindow
          /\ \/ web.page.hostname = "localhost"
             \/ web.page.hostname = "127.0.0.1"
             \/ web.page.nodeEnv = "development"]
  /\ UNCHANGED <<stats, env, call, avail, sc, fmt, snap, srv, ui, rx, plug>>

\* isAvailable()
WebIsAvailable ==
  /\ web.made
  /\ web' = IF web.mockEnabled
              THEN [web EXCEPT !.available = "true", !.status = "MOCK_AVAILABLE"]
              ELSE [web EXCEPT !.available = "false"]
  /\ UNCHANGED <<stats, env, call, avail, sc, fmt, snap, srv, ui, rx, plug>>

\* initialize()
WebInitialize ==
  /\ web.made
  /\ web' = [web EXCEPT !.initialized = IF web.mockEnabled THEN "true" ELSE "false"]
  /\ UNCHANGED <<stats, env, call, avail, sc, fmt, snap, srv, ui, rx, plug>>

\* generate({ prompt })
WebGenerate ==
  /\ web.made
  /\ web' = [web EXCEPT !.generated =
                IF web.mockEnabled THEN "mock response"
                ELSE "Gemini Nano not available on web platform"]
  /\ UNCHANGED <<stats, env, call, avail, sc, fmt, snap, srv, ui, rx, plug>>

\* stream({ prompt })
WebStream ==
  /\ web.made
  /\ web' = [web EXCEPT !.streamed =
                IF web.mockEnabled THEN "mock chunks" ELSE "nothing"]
  /\ UNCHANGED <<stats, env, call, avail, sc, fmt, snap, srv, ui, rx, plug>>

----------------------------------------------------------------------------
\* The API server: the POST /api/chat route, LLMRouter and the providers
\* behind it.  A world says what the machine answers: the OpenAI stream
\* yields apiLen tokens and then raises if apiFail (apiLen = 0: the
\* completion request itself is refused); ollama.list() answers if localUp
\* and lists the model if hasModel, the Ollama stream yields localLen tokens
\* and then raises if localFail; online is is-online's answer; force is
\* FORCE_LOCAL / FORCE_API of the process.

Forces == {"none", "local", "api"}

Worlds ==
  [apiLen : 0..MaxTok, apiFail : BOOLEAN,
   localUp : BOOLEAN, hasModel : BOOLEAN,
   localLen : 0..MaxTok, localFail : BOOLEAN,
   online : BOOLEAN, force : Forces]

NoWorld ==
  [apiLen |-> 0, apiFail |-> FALSE, localUp |-> FALSE, hasModel |-> FALSE,
   localLen |-> 0, localFail |-> FALSE, online |-> FALSE, force |-> "none"]

\* the i-th token of a provider's stream
Tok(source, i) == <<source, i>>

SourceLen(w, source) ==
  IF source = "api" THEN w.apiLen
  ELSE IF source = "local" THEN w.localLen
  ELSE 0

SourceFails(w, source) ==
  IF source = "api" THEN w.apiFail
  ELSE IF source = "local" THEN w.localFail
  ELSE FALSE

SourceTokens(w, source) == [i \in 1..SourceLen(w, source) |-> Tok(source, i)]

\* what an awaited provider.stream(...) gave: a stream, or the error thrown
Opened(source) == [ok |-> TRUE, source |-> source, err |-> ""]
Threw(e) == [ok |-> FALSE, source |-> "none", err |-> e]

\* APIProvider.stream: hands out the streamOpenAI generator, not yet started
ApiStream(provider) ==
  IF provider \in {"none", "openai"}
    THEN Opened("api")
    ELSE Threw("Unsupported API provider")

\* LocalProvider.isAvailable
LocalIsAvailable(w) == w.localUp

\* LocalProvider.stream: list and chat are awaited before the stream is
\* handed out
LocalStream(w) ==
  IF ~w.localUp THEN Threw("ollama unreachable")
  ELSE IF ~w.hasModel THEN Threw("Model not available locally")
  ELSE Opened("local")

\* options.strategy || 'auto'
HybridStrategies == {"none", "api-first", "local-first", "auto", "hybrid"}

\* HybridProvider.stream
HybridStream(w, strategy, provider, allowAPI) ==
  IF strategy = "api-first" THEN
    IF ApiStream(provider).ok THEN ApiStream(provider)
    ELSE IF LocalIsAvailable(w) THEN LocalStream(w)
    ELSE ApiStream(provider)
  ELSE IF strategy = "local-first" THEN
    IF LocalIsAvailable(w) THEN LocalStream(w) ELSE ApiStream(provider)
  ELSE
    IF w.online /\ allowAPI /\ ApiStream(provider).ok THEN ApiStream(provider)
    ELSE IF LocalIsAvailable(w) THEN LocalStream(w)
    ELSE Threw("No LLM provider available")

\* LLMRouter.detectStrategy
detectStrategy(w) ==
  IF w.force = "local" THEN "local"
  ELSE IF w.force = "api" THEN "api"
  ELSE "hybrid"

\* ?strategy= of the request
QueryStrategies == {"none", "api", "local", "hybrid", "api-first"}

\* LLMRouter.stream
RouterStream(w, q) ==
  LET strategy == IF q # "none" THEN q ELSE detectStrategy(w)
  IN IF strategy = "api" THEN ApiStream("none")
     ELSE IF strategy = "local" THEN LocalStream(w)
     ELSE IF strategy = "hybrid" THEN HybridStream(w, strategy, "none", TRUE)
     ELSE Threw("Unsupported LLM strategy")

\* the frames of the response body
TokenFrame(token) == [kind |-> "token", token |-> token]
DoneFrame == [kind |-> "[DONE]", token |-> <<>>]

\* One request: where its handler is, who consumes the stream (the route,
\* or a caller of HybridProvider.stream itself) and with which strategy,
\* the stream being read, the tokens taken from it, the frames written to
\* the response and the error that ended it.
IdleServer(w) ==
  [pc |-> "idle", world |-> w, via |-> "none", strategy |-> "none",
   allowAPI |-> TRUE, source |-> "none", got |-> <<>>, wire |-> <<>>,
   err |-> ""]

NoServer == IdleServer(NoWorld)

\* the handler after its awaited stream(...) call
Entered(r, via, strategy, allowAPI, o) ==
  IF o.ok
    THEN [r EXCEPT !.pc = "loop", !.via = via, !.strategy = strategy,
                   !.allowAPI = allowAPI, !.source = o.source]
    ELSE [r EXCEPT !.pc = "failed", !.via = via, !.strategy = strategy,
                   !.allowAPI = allowAPI, !.err = o.err]

\* POST /api/chat: the body is parsed and router.stream awaited
SrvPost(q, bodyOk) ==
  /\ srv.pc = "idle"
  /\ srv' = IF ~bodyOk
              THEN [srv EXCEPT !.pc = "failed", !.via = "route",
                               !.err = "invalid body"]
              ELSE Entered(srv, "route",
                           IF q # "none" THEN q ELSE detectStrategy(srv.world),
                           TRUE, RouterStream(srv.world, q))
  /\ UNCHANGED <<stats, env, call, avail, sc, fmt, snap, web, ui, rx, plug>>

\* hybrid.stream(messages, options) awaited by a caller of its own
SrvHybrid(strategy, provider, allowAPI) ==
  /\ srv.pc = "idle"
  /\ srv' = Entered(srv, "hybrid",
                    IF strategy = "none" THEN "auto" ELSE strategy, allowAPI,
                    HybridStream(srv.world, strategy, provider, allowAPI))
  /\ UNCHANGED <<stats, env, call, avail, sc, fmt, snap, web, ui, rx, plug>>

Written(r, frame) ==
  IF r.via = "route" THEN [r EXCEPT !.wire = Append(@, frame)] ELSE r

\* for await (const token of stream): one token taken, one frame written
SrvToken ==
  /\ srv.pc = "loop"
  /\ Len(srv.got) < SourceLen(srv.world, srv.source)
  /\ LET token == Tok(srv.source, Len(srv.got) + 1)
     IN srv' = Written([srv EXCEPT !.got = Append(@, token)], TokenFrame(token))
  /\ UNCHANGED <<stats, env, call, avail, sc, fmt, snap, web, ui, rx, plug>>

\* mutant: the catch closes the body with the end marker
SrvCatch_WritesDone ==
  /\ srv.pc = "loop"
  /\ Len(srv.got) = SourceLen(srv.world, srv.source)
  /\ SourceFails(srv.world, srv.source)
  /\ srv' = Written([srv EXCEPT !.pc = "failed", !.err = "stream error"],
                    DoneFrame)
  /\ UNCHANGED <<stats, env, call, avail, sc, fmt, snap, web, ui, rx, plug>>

\* the stream raises: the route's catch answers with the error
SrvCatch ==
  /\ srv.pc = "loop"
  /\ Len(srv.got) = SourceLen(srv.world, srv.source)
  /\ SourceFails(srv.world, srv.source)
  /\ srv' = [srv EXCEPT !.pc = "failed", !.err = "stream error"]
  /\ UNCHANGED <<stats, env, call, avail, sc, fmt, snap, web, ui, rx, plug>>

\* the stream is exhausted: reply.raw.write('data: [DONE]\n\n')
SrvDone ==
  /\ srv.pc = "loop"
  /\ Len(srv.got) = SourceLen(srv.world, srv.source)
  /\ ~SourceFails(srv.world, srv.source)
  /\ srv' = Written([srv EXCEPT !.pc = "marked"], DoneFrame)
  /\ UNCHANGED <<stats, env, call, avail, sc, fmt, snap, web, ui, rx, plug>>

\* reply.raw.end()
SrvEnd ==
  /\ srv.pc = "marked"
  /\ srv' = [srv EXCEPT !.pc = "ended"]
  /\ UNCHANGED <<stats, env, call, avail, sc, fmt, snap, web, ui, rx, plug>>

----------------------------------------------------------------------------
\* ChatDrawer: the busy and input state as rendered, the selected model, and
\* the invocations of send(): waiting for checkServerHealth ("health"), or
\* past setBusy(true) with their llmProvider.stream call being consumed
\* ("stream").  warned: the "Test Server Not Running" message was shown.

SendIds == 1..MaxSends

IdleSend == [pc |-> "idle", model |-> "auto"]

IdleUi ==
  [busy |-> FALSE, input |-> FALSE, selectedModel |-> "auto",
   send |-> [i \in SendIds |-> IdleSend], warned |-> FALSE]

HealthChecked == {"gpt-4o-mini", "claude-code", "auto"}

\* the user message and the placeholder are appended, the input is cleared,
\* setBusy(true), and the stream call is made
Proceed(u, i, m) ==
  [u EXCEPT !.input = FALSE, !.busy = TRUE,
            !.send[i] = [pc |-> "stream", model |-> m]]

\* the user types into the input (disabled while busy)
UiType ==
  /\ ~ui.busy
  /\ ~ui.input
  /\ ui' = [ui EXCEPT !.input = TRUE]
  /\ UNCHANGED <<stats, env, call, avail, sc, fmt, snap, web, srv, rx, plug>>

\* the user picks a model in the select
UiSelect(m) ==
  /\ m # ui.selectedModel
  /\ ui' = [ui EXCEPT !.selectedModel = m]
  /\ UNCHANGED <<stats, env, call, avail, sc, fmt, snap, web, srv, rx, plug>>

\* Enter in the input or a click on Send (both disabled while busy): send()
\* up to its first await
UiSend(i) ==
  /\ ~ui.busy
  /\ ui.send[i].pc = "idle"
  /\ ui' = IF ~ui.input \/ ui.busy THEN ui
           ELSE IF ui.selectedModel \in HealthChecked
             THEN [ui EXCEPT !.send[i] =
                     [pc |-> "health", model |-> ui.selectedModel]]
             ELSE Proceed(ui, i, ui.selectedModel)
  /\ UNCHANGED <<stats, env, call, avail, sc, fmt, snap, web, srv, rx, plug>>

\* checkServerHealth() has answered: the warning and return, or the rest of
\* send() up to the stream call
UiHealth(i, running) ==
  /\ ui.send[i].pc = "health"
  /\ ui' = IF ~running /\ env.online /\ env.hasKey
             THEN [ui EXCEPT !.send[i] = IdleSend, !.warned = TRUE]
             ELSE Proceed(ui, i, ui.send[i].model)
  /\ UNCHANGED <<stats, env, call, avail, sc, fmt, snap, web, srv, rx, plug>>

\* the stream has been consumed or has raised: finally { setBusy(false) }
UiFinally(i) ==
  /\ ui.send[i].pc = "stream"
  /\ ui' = [ui EXCEPT !.busy = FALSE, !.send[i] = IdleSend]
  /\ UNCHANGED <<stats, env, call, avail, sc, fmt, snap, web, srv, rx, plug>>

----------------------------------------------------------------------------
\* streamChat's decoding of the response body.  The body is a sequence of
\* characters: "d" ":" stand for the prefix 'data: ', "x" and "y" for a JSON
\* payload carrying that token, "e" for a JSON payload with an empty token,
\* "D" for the payload [DONE], " " and "\r" for white space, "\n" for the
\* line feed.  The transport hands the body over in chunks of any length;
\* the characters are those decoder.decode(value, { stream: true }) gives,
\* which holds back a multi-byte sequence a chunk leaves incomplete.

BodyLines ==
  { <<"d", ":", "x", "\n">>,
    <<"d", ":", " ", "y", "\r", "\n">>,
    <<"d", ":", "e", "\n">>,
    <<"d", ":", "D", "\n">>,
    <<"x", "\n">>,
    <<"\n">> }

RECURSIVE Bodies(_)
Bodies(n) ==
  IF n = 0 THEN {<<>>}
  ELSE Bodies(n - 1) \cup {b \o l : b \in Bodies(n - 1), l \in BodyLines}

\* the index of the first line feed of text, 0 if there is none
RECURSIVE FirstLF(_, _)
FirstLF(text, i) ==
  IF i > Len(text) THEN 0
  ELSE IF text[i] = "\n" THEN i
  ELSE FirstLF(text, i + 1)

\* a line as split(/\r?\n/) gives it: without the "\r" before the line feed
CutCR(line) ==
  IF line # <<>> /\ line[Len(line)] = "\r"
    THEN SubSeq(line, 1, Len(line) - 1)
    ELSE line

\* buffer.split(/\r?\n/) without its last element: the completed lines
RECURSIVE CompleteLines(_)
CompleteLines(text) ==
  LET i == FirstLF(text, 1)
  IN IF i = 0 THEN <<>>
     ELSE <<CutCR(SubSeq(text, 1, i - 1))>>
            \o CompleteLines(SubSeq(text, i + 1, Len(text)))

\* mutant: what follows the last line feed is not kept for the next chunk
Rest_Dropped(text) == <<>>

\* lines.pop() || '': what follows the last line feed
RECURSIVE Rest(_)
Rest(text) ==
  LET i == FirstLF(text, 1)
  IN IF i = 0 THEN text ELSE Rest(SubSeq(text, i + 1, Len(text)))

White == {" ", "\r", "\n"}

\* String.prototype.trim
RECURSIVE Trim(_)
Trim(text) ==
  IF text = <<>> THEN text
  ELSE IF text[1] \in White THEN Trim(Tail(text))
  ELSE IF text[Len(text)] \in White THEN Trim(SubSeq(text, 1, Len(text) - 1))
  ELSE text

\* line.startsWith('data: ')
StartsWithData(line) == Len(line) >= 2 /\ line[1] = "d" /\ line[2] = ":"

\* line.slice(6).trim()
DataOf(line) == Trim(SubSeq(line, 3, Len(line)))

\* what one data payload makes streamChat yield: the token of a JSON
\* payload, the payload itself if it is no JSON, nothing if that is empty
Yielded(data) ==
  IF data = <<>> \/ data = <<"e">> THEN <<>> ELSE <<data>>

\* for (const line of lines): the fragments yielded, and whether the loop
\* returned at the end marker
RECURSIVE Consume(_, _)
Consume(lines, out) ==
  IF lines = <<>> THEN [out |-> out, marker |-> FALSE]
  ELSE IF ~StartsWithData(lines[1]) THEN Consume(Tail(lines), out)
  ELSE IF DataOf(lines[1]) = <<"D">> THEN [out |-> out, marker |-> TRUE]
  ELSE Consume(Tail(lines), out \o Yielded(DataOf(lines[1])))

\* the decoding of one body: the body, how much of it the reader has handed
\* over, the buffer, the fragments yielded; carried tells that some chunk
\* ended inside a line
NewRx(body) ==
  [pc |-> "reading", body |-> body, pos |-> 0, buffer |-> <<>>,
   out |-> <<>>, carried |-> FALSE]

IdleRx == [NewRx(<<>>) EXCEPT !.pc = "idle"]

\* one reader.read() that gives a chunk of k characters, and the loop body
RxRead(k) ==
  /\ rx.pc = "reading"
  /\ rx.pos + k <= Len(rx.body)
  /\ LET text == rx.buffer \o SubSeq(rx.body, rx.pos + 1, rx.pos + k)
         c == Consume(CompleteLines(text), rx.out)
     IN rx' = [rx EXCEPT !.pos = @ + k,
                         !.buffer = Rest(text),
                         !.out = c.out,
                         !.carried = @ \/ Rest(text) # <<>>,
                         !.pc = IF c.marker THEN "done" ELSE @]
  /\ UNCHANGED <<stats, env, call, avail, sc, fmt, snap, web, srv, ui, plug>>

\* reader.read() gives done: break
RxEnd ==
  /\ rx.pc = "reading"
  /\ rx.pos = Len(rx.body)
  /\ rx' = [rx EXCEPT !.pc = "done"]
  /\ UNCHANGED <<stats, env, call, avail, sc, fmt, snap, web, srv, ui, plug>>

----------------------------------------------------------------------------
\* GeminiNanoPlugin (Android).  The main thread's Handler keeps its messages
\* ordered by the time they are due and runs the first one once it is due;
\* now is the clock in units of the 30 ms delay.  A message is a runnable
\* posted by the plugin: "chunk" (notify one word), "next"
\* (streamWordsAsync for the following index), "done" (the final event and
\* call.resolve()), "reject".  events are the streamChunk events listeners
\* have received.

Delay == 1
MaxClock == MaxWords + 2

\* what generateContent gives: a failure, or a text of so many words (an
\* empty text has none)
Resp(kind, words) == [kind |-> kind, words |-> words]

Responses ==
  {Resp("failure", 0), Resp("empty", 0)}
    \cup {Resp("text", n) : n \in 0..MaxWords}

Msg(kind, index, when) == [kind |-> kind, index |-> index, when |-> when]

\* mutant: a message is put at the front of the queue
Enqueue_AtFront(q, m) == <<m>> \o q

\* MessageQueue.enqueueMessage: before the first message due later
RECURSIVE Enqueue(_, _)
Enqueue(q, m) ==
  IF q = <<>> THEN <<m>>
  ELSE IF q[1].when > m.when THEN <<m>> \o q
  ELSE <<q[1]>> \o Enqueue(Tail(q), m)

\* mainHandler.post(r)
Post(g, kind, index) ==
  [g EXCEPT !.queue = Enqueue(@, Msg(kind, index, g.now))]

\* mainHandler.postDelayed(r, 30)
PostDelayed(g, kind, index) ==
  [g EXCEPT !.queue = Enqueue(@, Msg(kind, index, g.now + Delay))]

\* words[index] + (index < words.length - 1 ? " " : ""), index counted
\* from 1 here
Chunk(index, n) ==
  [word |-> index, space |-> index < n, done |-> FALSE]

DoneChunk == [word |-> 0, space |-> FALSE, done |-> TRUE]

IdlePlugin ==
  [modelInitialized |-> FALSE, pc |-> "idle", response |-> Resp("failure", 0),
   now |-> 0, queue |-> <<>>, events |-> <<>>, outcome |-> "none"]

WordsOf(g) == g.response.words

\* streamWordsAsync(words, index, call) run on the main thread
StreamWordsAsync(g, index) ==
  IF index > WordsOf(g)
    THEN Post(g, "done", index)
    ELSE PostDelayed(Post(g, "chunk", index), "next", index + 1)

\* initialize(): the model is there, or the call is rejected
PlugInitialize(ok) ==
  /\ plug.pc = "idle"
  /\ ~plug.modelInitialized
  /\ plug' = [plug EXCEPT !.modelInitialized = ok]
  /\ UNCHANGED <<stats, env, call, avail, sc, fmt, snap, web, srv, ui, rx>>

\* stream(call): the two guards, then generateContent(prompt)
PlugStream(hasPrompt) ==
  /\ plug.pc = "idle"
  /\ plug.outcome = "none"
  /\ plug' = IF ~plug.modelInitialized \/ ~hasPrompt
               THEN [plug EXCEPT !.outcome = "rejected"]
               ELSE [plug EXCEPT !.pc = "generating"]
  /\ UNCHANGED <<stats, env, call, avail, sc, fmt, snap, web, srv, ui, rx>>

\* generateContent settles: the failure listener rejects, the success
\* listener hands the result to the background executor
PlugGenerated(response) ==
  /\ plug.pc = "generating"
  /\ plug' = IF response.kind = "failure"
               THEN [plug EXCEPT !.pc = "idle", !.outcome = "rejected"]
               ELSE [plug EXCEPT !.pc = "background", !.response = response]
  /\ UNCHANGED <<stats, env, call, avail, sc, fmt, snap, web, srv, ui, rx>>

\* the background thread: the empty response, or the first post of
\* streamWordsAsync(words, 0, call)
PlugBackground ==
  /\ plug.pc = "background"
  /\ plug' = IF plug.response.kind = "empty"
               THEN [Post(plug, "reject", 0) EXCEPT !.pc = "posted"]
               ELSE IF WordsOf(plug) = 0
                 THEN [Post(plug, "done", 1) EXCEPT !.pc = "posted"]
                 ELSE [Post(plug, "chunk", 1) EXCEPT !.pc = "background-next"]
  /\ UNCHANGED <<stats, env, call, avail, sc, fmt, snap, web, srv, ui, rx>>

\* the background thread: the postDelayed of streamWordsAsync(words, 0, call)
PlugBackgroundNext ==
  /\ plug.pc = "background-next"
  /\ plug' = [PostDelayed(plug, "next", 2) EXCEPT !.pc = "posted"]
  /\ UNCHANGED <<stats, env, call, avail, sc, fmt, snap, web, srv, ui, rx>>

\* the main thread runs the first message of its queue, if it is due
PlugLooper ==
  /\ plug.queue # <<>>
  /\ plug.queue[1].when <= plug.now
  /\ LET m == plug.queue[1]
         g == [plug EXCEPT !.queue = Tail(@)]
     IN plug' =
          CASE m.kind = "chunk" ->
                 [g EXCEPT !.events = Append(@, Chunk(m.index, WordsOf(g)))]
            [] m.kind = "next" -> StreamWordsAsync(g, m.index)
            [] m.kind = "done" ->
                 [g EXCEPT !.events = Append(@, DoneChunk), !.outcome = "resolved"]
            [] OTHER -> [g EXCEPT !.outcome = "rejected"]
  /\ UNCHANGED <<stats, env, call, avail, sc, fmt, snap, web, srv, ui, rx>>

\* time passes
PlugTick ==
  /\ plug.now < MaxClock
  /\ plug' = [plug EXCEPT !.now = @ + 1]
  /\ UNCHANGED <<stats, env, call, avail, sc, fmt, snap, web, srv, ui, rx>>

----------------------------------------------------------------------------
\* The specification

Init ==
  /\ stats = InitStats
  /\ env \in Envs
  /\ call = [c \in CallIds |-> IdleCall]
  /\ avail = NoAvail
  /\ sc = IdleChat
  /\ fmt = NoRequest
  /\ snap = NoSnapshot
  /\ web = NoPlugin
  /\ plug = IdlePlugin
  /\ rx = IdleRx
  /\ ui = IdleUi
  /\ srv = NoServer

Next ==
  \/ \E c \in CallIds, m \in ModelOption : StartCall(c, m)
  \/ \E c \in CallIds : Pull(c)
  \/ \E c \in CallIds : Release(c)
  \/ ChangeEnv
  \/ \E c \in CallIds : Dispatch(c)
  \/ \E c \in CallIds : XNanoProbe(c)
  \/ \E c \in CallIds : XNanoStream(c)
  \/ \E c \in CallIds : XLlamaProbe(c)
  \/ \E c \in CallIds : XLlamaStream(c)
  \/ \E c \in CallIds : XGptPre(c)
  \/ \E c \in CallIds : XGptStream(c)
  \/ \E c \in CallIds : XClaudePre(c)
  \/ \E c \in CallIds : XClaudeStream(c)
  \/ \E c \in CallIds : ANanoProbe(c)
  \/ \E c \in CallIds : ANanoStream(c)
  \/ \E c \in CallIds : ALlamaProbe(c)
  \/ \E c \in CallIds : ALlamaStream(c)
  \/ \E c \in CallIds : ACloud(c)
  \/ \E c \in CallIds : ACloudStream(c)
  \/ \E c \in CallIds : AFail(c)
  \/ CheckAvailability

Spec == Init /\ [][Next]_vars

TypeOK ==
  /\ stats.provider \in {"gemini-nano", "llama-local", "cloud-api", "claude-api", "none"}
  /\ stats.model \in ModelOption \cup {"absent"}
  /\ Len(stats.fallbackReason) <= 3
  /\ env \in Envs
  /\ \A c \in CallIds :
       /\ call[c].model \in ModelOption
       /\ call[c].pulled \in BOOLEAN
       /\ call[c].pos \in 0..MaxFrag
       /\ call[c].superseded \in BOOLEAN
       /\ call[c].cancelled \in BOOLEAN
       /\ call[c].pulls \in 0..(3 * MaxFrag + 1)
  /\ avail \in [returned : BOOLEAN, geminiNano : BOOLEAN,
                llamaLocal : BOOLEAN, cloudAvailable : BOOLEAN]
  /\ sc.pc \in {"idle", "created", "reading", "lines"} \cup ChatTerminal
  /\ sc.pulled \in BOOLEAN
  /\ sc.reader \in {"none", "locked", "released"}
  /\ sc.reads \in 0..MaxReads
  /\ sc.exit \in {"none", "end", "marker", "error", "return"}
  /\ sc.stalled \in BOOLEAN
  /\ srv.world \in Worlds /\ srv.got \in Seq({"api", "local"} \X (1..MaxTok))
  /\ srv.pc \in {"idle", "loop", "marked", "ended", "failed"}
  /\ ui.busy \in BOOLEAN /\ ui.input \in BOOLEAN /\ ui.warned \in BOOLEAN
  /\ ui.selectedModel \in ModelOption
  /\ \A i \in SendIds : ui.send[i].pc \in {"idle", "health", "stream"}
  /\ rx.pc \in {"idle", "reading", "done"} /\ rx.pos \in 0..Len(rx.body)
  /\ plug.modelInitialized \in BOOLEAN /\ plug.now \in 0..MaxClock
  /\ plug.outcome \in {"none", "resolved", "rejected"}
  /\ plug.response \in Responses
  /\ web.made \in BOOLEAN /\ web.page \in Pages /\ web.mockEnabled \in BOOLEAN
  /\ web.available \in {"not asked", "true", "false"}
  /\ web.initialized \in {"not asked", "true", "false"}
  /\ Len(sc.lines) <= MaxLines

----------------------------------------------------------------------------
\* Progress of a call: the caller's for await loop pulls again as soon as
\* a fragment has been handled, and a generator that has been resumed runs
\* to its next suspension point, every probe and every backend stream
\* being taken to answer.

Advance(c) ==
  \/ Pull(c)
  \/ Dispatch(c)
  \/ XNanoProbe(c) \/ XNanoStream(c)
  \/ XLlamaProbe(c) \/ XLlamaStream(c)
  \/ XGptPre(c) \/ XGptStream(c)
  \/ XClaudePre(c) \/ XClaudeStream(c)
  \/ ANanoProbe(c) \/ ANanoStream(c)
  \/ ALlamaProbe(c) \/ ALlamaStream(c)
  \/ ACloud(c) \/ ACloudStream(c)
  \/ AFail(c)

SpecLive == Init /\ [][Next]_vars /\ \A c \in CallIds : WF_vars(Advance(c))

----------------------------------------------------------------------------
\* Two calls on the shared llmProvider instance, interleaved at their
\* suspension points: nothing in stream() or in its callers serialises
\* calls, the chat drawer's busy flag apart.

ConcIds == {1, 2}

\* the environments of the interleaved runs: a native device, online with
\* a key, whose probes answer
ConcEnvs ==
  {e \in Envs : e.native /\ e.online /\ e.hasKey
                   /\ e.nano # "throw" /\ e.llama # "throw"}

\* llmProvider.stream({...}) while another call may be in flight
StartCallConc(c, m) ==
  /\ call[c].pc = "idle"
  /\ call' = [d \in CallIds |->
               IF d = c THEN NewCall(m)
               ELSE IF call[d].pc \in Terminal \cup {"idle"} THEN call[d]
               ELSE [call[d] EXCEPT !.superseded = TRUE]]
  /\ UNCHANGED <<stats, env, avail, elsewhere>>

InitConc ==
  /\ stats = InitStats
  /\ env \in ConcEnvs
  /\ call = [c \in CallIds |-> IdleCall]
  /\ avail = NoAvail
  /\ sc = IdleChat
  /\ fmt = NoRequest
  /\ snap = NoSnapshot
  /\ web = NoPlugin
  /\ plug = IdlePlugin
  /\ rx = IdleRx
  /\ ui = IdleUi
  /\ srv = NoServer

NextConc ==
  \/ \E c \in ConcIds, m \in ModelOption : StartCallConc(c, m)
  \/ \E c \in ConcIds : Pull(c)
  \/ \E c \in ConcIds : Release(c)
  \/ \E c \in ConcIds : Dispatch(c)
  \/ \E c \in ConcIds : XNanoProbe(c)
  \/ \E c \in ConcIds : XNanoStream(c)
  \/ \E c \in ConcIds : XLlamaProbe(c)
  \/ \E c \in ConcIds : XLlamaStream(c)
  \/ \E c \in ConcIds : XGptPre(c)
  \/ \E c \in ConcIds : XGptStream(c)
  \/ \E c \in ConcIds : XClaudePre(c)
  \/ \E c \in ConcIds : XClaudeStream(c)
  \/ \E c \in ConcIds : ANanoProbe(c)
  \/ \E c \in ConcIds : ANanoStream(c)
  \/ \E c \in ConcIds : ALlamaProbe(c)
  \/ \E c \in ConcIds : ALlamaStream(c)
  \/ \E c \in ConcIds : ACloud(c)
  \/ \E c \in ConcIds : ACloudStream(c)
  \/ \E c \in ConcIds : AFail(c)

SpecConc == InitConc /\ [][NextConc]_vars

----------------------------------------------------------------------------
\* The provider with a caller that keeps what getStats() returned

NextSnap ==
  \/ \E c \in CallIds, m \in ModelOption : StartCall(c, m)
  \/ \E c \in CallIds : Release(c)
  \/ \E c \in CallIds : Advance(c)
  \/ TakeSnapshot
  \/ EditSnapshot

SpecSnap == Init /\ [][NextSnap]_vars

----------------------------------------------------------------------------
\* The provider with a caller that may abandon a call

NextCancel ==
  \/ \E c \in CallIds, m \in ModelOption : StartCall(c, m)
  \/ \E c \in CallIds : Release(c)
  \/ \E c \in CallIds : Advance(c)
  \/ \E c \in CallIds : Cancel(c)
  \/ ChangeEnv
  \/ CheckAvailability

SpecCancel == Init /\ [][NextCancel]_vars

----------------------------------------------------------------------------
\* The Remote adapter on its own

InitChat ==
  /\ stats = InitStats
  /\ env = ChatEnv
  /\ call = [c \in CallIds |-> IdleCall]
  /\ avail = NoAvail
  /\ sc = IdleChat
  /\ fmt = NoRequest
  /\ snap = NoSnapshot
  /\ web = NoPlugin
  /\ plug = IdlePlugin
  /\ rx = IdleRx
  /\ ui = IdleUi
  /\ srv = NoServer

NextChat ==
  \/ ScStart
  \/ ScPull
  \/ ScFetch
  \/ ScRead
  \/ ScStall
  \/ ScTimeout
  \/ ScLine
  \/ ScReturn
  \/ ScDrop

SpecChat == InitChat /\ [][NextChat]_vars

\* the timer of the signal fires
SpecChatLive == SpecChat /\ WF_vars(ScTimeout)

----------------------------------------------------------------------------
\* The plugin's web fallback on its own

InitWeb ==
  /\ stats = InitStats
  /\ env = ChatEnv
  /\ call = [c \in CallIds |-> IdleCall]
  /\ avail = NoAvail
  /\ sc = IdleChat
  /\ fmt = NoRequest
  /\ snap = NoSnapshot
  /\ \E page \in Pages : web = Unmade(page)
  /\ plug = IdlePlugin
  /\ rx = IdleRx
  /\ ui = IdleUi
  /\ srv = NoServer

NextWeb ==
  \/ WebConstruct
  \/ WebIsAvailable
  \/ WebInitialize
  \/ WebGenerate
  \/ WebStream

SpecWeb == InitWeb /\ [][NextWeb]_vars

----------------------------------------------------------------------------
\* The API server on its own

InitServer ==
  /\ stats = InitStats
  /\ env = ChatEnv
  /\ call = [c \in CallIds |-> IdleCall]
  /\ avail = NoAvail
  /\ sc = IdleChat
  /\ fmt = NoRequest
  /\ snap = NoSnapshot
  /\ web = NoPlugin
  /\ plug = IdlePlugin
  /\ rx = IdleRx
  /\ ui = IdleUi
  /\ \E w \in Worlds : srv = IdleServer(w)

NextServer ==
  \/ \E q \in QueryStrategies, bodyOk \in BOOLEAN : SrvPost(q, bodyOk)
  \/ \E strategy \in HybridStrategies, provider \in {"none", "anthropic"},
        allowAPI \in BOOLEAN : SrvHybrid(strategy, provider, allowAPI)
  \/ SrvToken
  \/ SrvCatch
  \/ SrvDone
  \/ SrvEnd

SpecServer == InitServer /\ [][NextServer]_vars

----------------------------------------------------------------------------
\* The chat drawer on its own

InitUi ==
  /\ stats = InitStats
  /\ env \in Envs
  /\ call = [c \in CallIds |-> IdleCall]
  /\ avail = NoAvail
  /\ sc = IdleChat
  /\ fmt = NoRequest
  /\ snap = NoSnapshot
  /\ web = NoPlugin
  /\ plug = IdlePlugin
  /\ rx = IdleRx
  /\ srv = NoServer
  /\ ui = IdleUi

NextUi ==
  \/ UiType
  \/ \E m \in ModelOption : UiSelect(m)
  \/ \E i \in SendIds : UiSend(i)
  \/ \E i \in SendIds, running \in BOOLEAN : UiHealth(i, running)
  \/ \E i \in SendIds : UiFinally(i)

SpecUi == InitUi /\ [][NextUi]_vars

----------------------------------------------------------------------------
\* The decoding of a response body on its own

InitRx ==
  /\ stats = InitStats
  /\ env = ChatEnv
  /\ call = [c \in CallIds |-> IdleCall]
  /\ avail = NoAvail
  /\ sc = IdleChat
  /\ fmt = NoRequest
  /\ snap = NoSnapshot
  /\ web = NoPlugin
  /\ plug = IdlePlugin
  /\ srv = NoServer
  /\ ui = IdleUi
  /\ \E body \in Bodies(MaxFrames) : rx = NewRx(body)

NextRx ==
  \/ \E k \in 1..Len(rx.body) : RxRead(k)
  \/ RxEnd

SpecRx == InitRx /\ [][NextRx]_vars

----------------------------------------------------------------------------
\* The native plugin on its own

InitPlugin ==
  /\ stats = InitStats
  /\ env = ChatEnv
  /\ call = [c \in CallIds |-> IdleCall]
  /\ avail = NoAvail
  /\ sc = IdleChat
  /\ fmt = NoRequest
  /\ snap = NoSnapshot
  /\ web = NoPlugin
  /\ srv = NoServer
  /\ ui = IdleUi
  /\ rx = IdleRx
  /\ plug = IdlePlugin

NextPlugin ==
  \/ \E ok \in BOOLEAN : PlugInitialize(ok)
  \/ \E hasPrompt \in BOOLEAN : PlugStream(hasPrompt)
  \/ \E response \in Responses : PlugGenerated(response)
  \/ PlugBackground
  \/ PlugBackgroundNext
  \/ PlugLooper
  \/ PlugTick

SpecPlugin == InitPlugin /\ [][NextPlugin]_vars

----------------------------------------------------------------------------
\* The request construction on its own

InitFormat ==
  /\ stats = InitStats
  /\ env = ChatEnv
  /\ call = [c \in CallIds |-> IdleCall]
  /\ avail = NoAvail
  /\ sc = IdleChat
  /\ \E x \in Contexts : fmt = Request(x)
  /\ snap = NoSnapshot
  /\ web = NoPlugin
  /\ plug = IdlePlugin
  /\ rx = IdleRx
  /\ ui = IdleUi
  /\ srv = NoServer

NextFormat ==
  \/ NewRequest
  \/ BuildRequest

SpecFormat == InitFormat /\ [][NextFormat]_vars

----------------------------------------------------------------------------
\* Observations used by the properties

Log(c) == call[c].log

IsYield(e) == e.op = "yield"

\* the fragments the caller of call c has received
Out(c) == SelectSeq(Log(c), IsYield)

\* positions of the log holding an event of kind op
At(c, op) == {i \in DOMAIN Log(c) : Log(c)[i].op = op}

Auto(c) == call[c].pc # "idle" /\ call[c].model = "auto"

Explicit(c) == call[c].pc # "idle" /\ call[c].model # "auto"

----------------------------------------------------------------------------
\* C1: in auto mode, once a fragment of a tier has been yielded to the
\* caller, no availability check and no stream of another tier is started
\* in that call, even if the streaming tier then raises.
C1_NoFallbackAfterFragment ==
  \A c \in CallIds :
    Auto(c) =>
      \A i \in At(c, "yield") :
        \A j \in DOMAIN Log(c) :
          (j > i /\ Log(c)[j].op \in {"avail", "start"}) =>
            Log(c)[j].tier = Log(c)[i].tier

\* C2: when the selected backend has yielded k >= 1 fragments and its
\* stream then raises E, the caller receives those fragments followed
\* immediately by E itself, in auto mode and in explicit mode.
C2_MidStreamErrorAsIs ==
  \A c \in CallIds :
    \A i \in At(c, "error") :
      Log(c)[i].n >= 1 =>
        /\ call[c].pc = "failed"
        /\ call[c].err = StreamErr(Log(c)[i].tier)
        /\ i = Len(Log(c))


\* C3 (as stated): a backend whose stream raises before its first fragment
\* is at no point named by getStats().provider.
C3_NeverSpeculative ==
  \A c \in CallIds :
    \A i \in At(c, "error") :
      Log(c)[i].n = 0 => TierOfProvider(getStats.provider) # Log(c)[i].tier

\* call c starts the stream of tier t in this step
StartedNow(c, t) ==
  /\ Len(call'[c].log) > Len(call[c].log)
  /\ call'[c].log[Len(call'[c].log)] = Ev("start", t, 0)

\* C3 (amended): getStats().provider changes to a backend exactly in the
\* step that starts that backend's stream (its availability check or its
\* preconditions have passed, no fragment has been produced yet), and every
\* start of a stream leaves the provider naming the started backend.
C3_SetWhenStreamStarted ==
  [][ /\ (stats'.provider # stats.provider /\ stats'.provider # "none") =>
           \E c \in CallIds : StartedNow(c, TierOfProvider(stats'.provider))
      /\ \A c \in CallIds : \A t \in TierSet :
           StartedNow(c, t) =>
             /\ TierOfProvider(stats'.provider) = t
             /\ stats'.model = call[c].model
             /\ stats'.fallbackReason = <<>> ]_vars

\* C3 witness: a call has failed, its backend's stream raised before the
\* first fragment, and getStats() names that backend.
C3_Witness ==
  \E c \in CallIds :
    /\ call[c].pc = "failed"
    /\ \E i \in At(c, "error") :
         /\ Log(c)[i].n = 0
         /\ TierOfProvider(getStats.provider) = Log(c)[i].tier

Unavailable(m) ==
  CASE m = "nano" -> ~env.native \/ env.nano # "yes"
    [] m = "llama-small" -> env.llama # "yes"
    [] m \in {"gpt-4o-mini", "claude-code"} -> ~env.online \/ ~env.hasKey
    [] OTHER -> FALSE

C6_NanoPriority ==
  \A c \in CallIds :
    (Auto(c) /\ env.native /\ env.nano = "yes") =>
      /\ call[c].pc \in {"created", "a_nano"} => Log(c) = <<>>
      /\ call[c].pc \notin {"created", "a_nano"} =>
           /\ Len(Log(c)) >= 2
           /\ Log(c)[1] = Ev("avail", "nano", 0)
           /\ Log(c)[2] = Ev("start", "nano", 0)
      /\ call[c].pc = "a_nano_stream" => getStats.provider = "gemini-nano"

\* C6 witness: Gemini Nano streams while every other tier is usable too.
C6_Witness ==
  \E c \in CallIds :
    /\ Auto(c)
    /\ env.native /\ env.nano = "yes" /\ env.llama = "yes"
    /\ env.online /\ env.hasKey
    /\ call[c].pc = "a_nano_stream"
    /\ Len(Out(c)) >= 1

\* no tier can be used
AllUnavailable ==
  /\ ~env.native \/ env.nano # "yes"
  /\ env.llama # "yes"
  /\ ~env.online \/ ~env.hasKey

LineTiers(e) == {e.lines[i].tier : i \in DOMAIN e.lines}

\* C7: in auto mode with all three tiers unavailable, the call raises the
\* aggregate error before yielding any fragment, and the error names
\* Gemini Nano, Llama Local and Cloud API.
C7_AllTiersExhausted ==
  \A c \in CallIds :
    (Auto(c) /\ AllUnavailable) =>
      /\ Out(c) = <<>>
      /\ At(c, "start") = {}
      /\ call[c].pc # "done"
      /\ call[c].pc = "failed" =>
           /\ call[c].err.kind = "aggregate"
           /\ LineTiers(call[c].err) = {"Gemini Nano", "Llama Local", "Cloud API"}

\* C7 witness: such a call has ended with its error.
C7_Witness ==
  \E c \in CallIds :
    /\ Auto(c)
    /\ AllUnavailable
    /\ call[c].pc = "failed"

\* C8: in auto mode, online without a key and with both offline tiers
\* unavailable, getStats() after the call records the Cloud API tier as
\* skipped for want of a key, and the aggregate error marks it skipped.
C8_SkipRecorded ==
  \A c \in CallIds :
    (/\ Auto(c)
     /\ call[c].pc = "failed"
     /\ env.online /\ ~env.hasKey
     /\ ~env.native \/ env.nano # "yes"
     /\ env.llama # "yes") =>
      /\ \E i \in DOMAIN getStats.fallbackReason :
           getStats.fallbackReason[i] =
             Reason("Cloud API", <<"skipped (no API key provided)">>)
      /\ call[c].err.lines[3] = Line("Cloud API", "Skipped (no API key provided)")

\* C9: from the first step of a call until the call selects a backend,
\* getStats() reports provider 'none' and no failure reason, also when the
\* call is an explicit request that is then rejected.
C9_ResetAtStart ==
  \A c \in CallIds :
    /\ call[c].pc \in {"x_nano", "x_llama", "x_gpt", "x_claude", "a_nano"} =>
         getStats = InitStats
    /\ (Explicit(c) /\ call[c].pc = "failed" /\ At(c, "start") = {}) =>
         getStats.provider = "none" /\ getStats.fallbackReason = <<>>

\* C10: in auto mode every tier passed over before producing a fragment
\* has left a reason naming it, in attempt order, before the next tier is
\* tried.
C10_ReasonPerTier ==
  \A c \in CallIds :
    (Auto(c) /\ Out(c) = <<>>) =>
      /\ call[c].pc = "a_llama" =>
           /\ Len(getStats.fallbackReason) = 1
           /\ getStats.fallbackReason[1].tier = "Gemini Nano"
      /\ call[c].pc = "a_cloud" =>
           /\ Len(getStats.fallbackReason) = 2
           /\ getStats.fallbackReason[1].tier = "Gemini Nano"
           /\ getStats.fallbackReason[2].tier = "Llama Local"

----------------------------------------------------------------------------
\* tier Tiers[i]'s stream of call c was started and raised before any
\* fragment
FailedUnyielded(c, i) ==
  \E k \in At(c, "error") : Log(c)[k] = Ev("error", Tiers[i], 0)

ReasonTiers(e) == {e.reasons[i].tier : i \in DOMAIN e.reasons}

\* C11: the aggregate error of an auto call has one line per tier in the
\* order Gemini Nano, Llama Local, Cloud API, and a tier whose availability
\* check passed but whose stream failed is reported in its line as failed,
\* with the reason recorded for it during the call.
C11_AggregateTellsOutcomes ==
  \A c \in CallIds :
    (Auto(c) /\ call[c].pc = "failed" /\ call[c].err.kind = "aggregate") =>
      /\ Len(call[c].err.lines) = 3
      /\ \A i \in 1..3 :
           /\ call[c].err.lines[i].tier = TierLabel(Tiers[i])
           /\ FailedUnyielded(c, i) =>
                /\ call[c].err.lines[i].outcome = "Failed"
                /\ TierLabel(Tiers[i]) \in ReasonTiers(call[c].err)


----------------------------------------------------------------------------
\* streamChat was invoked by call c
RemoteInvoked(c) == \E k \in At(c, "start") : Log(c)[k].tier = "cloud"

----------------------------------------------------------------------------
\* the priority of a tier
Rank(t) == CHOOSE i \in 1..3 : Tiers[i] = t

\* the streams of call c that were started and have not raised
OpenStreams(c) ==
  {i \in At(c, "start") :
     ~\E k \in At(c, "error") : k > i /\ Log(c)[k].tier = Log(c)[i].tier}

\* C13: within one call the tiers are used in the order Gemini Nano, Llama
\* Local, Cloud API and one after the other: the events of a call never go
\* back to a higher-priority tier, an event of a tier comes only after every
\* stream started before it on another tier has ended, and at most one
\* stream of the call is open.
C13_TiersSequential ==
  \A c \in CallIds :
    /\ \A i, j \in DOMAIN Log(c) :
         i < j => Rank(Log(c)[i].tier) <= Rank(Log(c)[j].tier)
    /\ \A i \in At(c, "start"), j \in DOMAIN Log(c) :
         (i < j /\ Log(c)[j].tier # Log(c)[i].tier) =>
           \E k \in At(c, "error") :
             i < k /\ k < j /\ Log(c)[k].tier = Log(c)[i].tier
    /\ Cardinality(OpenStreams(c)) <= 1

\* C13 witness: an auto call has started the streams of all three tiers.
C13_Witness ==
  \E c \in CallIds :
    /\ Auto(c)
    /\ {Log(c)[i].tier : i \in At(c, "start")} = TierSet
    /\ call[c].pc = "a_cloud_stream"

----------------------------------------------------------------------------
\* what follows the event at position k of call c's log when that event is
\* the failure of tier t's stream: the next tier in priority order is
\* attempted (Llama Local is probed; the Cloud API is started if the device
\* is online with a key and passed over otherwise)
NextTierAttempted(c, k, t) ==
  LET last == k = Len(Log(c))
  IN CASE t = "nano" ->
            IF last THEN call[c].pc = "a_llama"
                    ELSE Log(c)[k + 1] = Ev("avail", "llama", 0)
       [] t = "llama" ->
            IF env.online /\ env.hasKey
              THEN IF last THEN call[c].pc = "a_cloud"
                           ELSE Log(c)[k + 1] = Ev("start", "cloud", 0)
              ELSE last /\ call[c].pc \in {"a_cloud", "a_fail", "failed"}
       [] OTHER -> last /\ call[c].pc \in {"a_fail", "failed"}

\* C14: when a tier's stream raises before any fragment, an auto call goes
\* on to the next tier in priority order and never hands the caller the
\* tier's error (the only error it can raise is the aggregate one), while
\* an explicit call ends with an error carrying the backend's message.
C14_TierFailed ==
  \A c \in CallIds :
    \A k \in At(c, "error") :
      Log(c)[k].n = 0 =>
        IF call[c].model = "auto"
          THEN /\ NextTierAttempted(c, k, Log(c)[k].tier)
               /\ call[c].err.kind \in {"none", "aggregate"}
               /\ call[c].err.msg = <<>>
          ELSE /\ call[c].pc = "failed"
               /\ call[c].err.kind = "wrapped"
               /\ call[c].err.msg = StreamErr(Log(c)[k].tier).msg

\* C14 witness: the first tier's stream raised before any fragment and the
\* caller is receiving fragments of the second tier.
C14_Witness ==
  \E c \in CallIds :
    /\ Auto(c)
    /\ \E k \in At(c, "error") : Log(c)[k] = Ev("error", "nano", 0)
    /\ call[c].pc = "a_llama_stream"
    /\ Out(c) # <<>>
    /\ call[c].err = NoErr

----------------------------------------------------------------------------
\* positions of call c's log where operation op was applied to tier t
Uses(c, op, t) == {i \in At(c, op) : Log(c)[i].tier = t}

\* C15: in one call each backend's availability check is called at most
\* once and each backend's stream is started at most once; after a tier has
\* raised it is neither probed nor started again.
C15_NoRetry ==
  \A c \in CallIds :
    \A t \in TierSet :
      /\ Cardinality(Uses(c, "avail", t)) <= 1
      /\ Cardinality(Uses(c, "start", t)) <= 1
      /\ Cardinality(Uses(c, "error", t)) <= 1
      /\ \A k \in Uses(c, "error", t) :
           \A j \in DOMAIN Log(c) : j > k => Log(c)[j].tier # t

\* C15 witness: an auto call has ended after the first tier was found
\* unavailable and the second tier's stream raised.
C15_Witness ==
  \E c \in CallIds :
    /\ Auto(c)
    /\ call[c].pc = "failed"
    /\ Uses(c, "avail", "nano") # {}
    /\ Uses(c, "start", "nano") = {}
    /\ Uses(c, "error", "llama") # {}

----------------------------------------------------------------------------
\* C16: a step in which checkAvailability() returns (the value it returned
\* last changes) leaves the value of getStats() as it was, whatever the
\* probes did.
C16_CheckAvailabilityKeepsStats ==
  [][avail' # avail => getStats' = getStats]_vars

\* C16 witness: checkAvailability() has returned in an environment whose
\* Gemini Nano probe raises, while the stats name a provider.
C16_Witness ==
  /\ avail = AvailResult(env)
  /\ env.nano = "throw"
  /\ ~avail.geminiNano
  /\ getStats.provider # "none"

----------------------------------------------------------------------------
\* C17: after a call has completed successfully, getStats().provider names
\* the backend that produced every fragment the caller received in it.
C17_ProviderServedFragments ==
  \A c \in CallIds :
    call[c].pc = "done" =>
      \A i \in DOMAIN Out(c) : Out(c)[i].tier = TierOfProvider(getStats.provider)

----------------------------------------------------------------------------
\* call c has used one backend only
ServedByOne(c) == Cardinality(At(c, "start")) = 1

\* the first n fragments of the stream of tier t
Produced(t, n) == [i \in 1..n |-> Ev("yield", t, i)]

\* C18: for a call served by one backend, what the caller has received is
\* exactly what was taken from that backend's stream so far, fragment by
\* fragment and in order, also after the backend has failed or the caller
\* has stopped pulling.
C18_FragmentsUnchanged ==
  \A c \in CallIds :
    ServedByOne(c) =>
      LET t == Log(c)[CHOOSE i \in At(c, "start") : TRUE].tier
      IN Out(c) = Produced(t, call[c].pos)

\* C18 witness: a call served by one backend has completed with several
\* fragments.
C18_Witness ==
  \E c \in CallIds :
    /\ ServedByOne(c)
    /\ call[c].pc = "done"
    /\ Len(Out(c)) >= 2

----------------------------------------------------------------------------
\* call c takes a step
Steps(c) == call'[c] # call[c] /\ \A d \in CallIds \ {c} : call'[d] = call[d]

\* C19: once a later call has been started, no step of an earlier call
\* still in flight changes what getStats() returns.
C19_LastStartedWins ==
  [][\A c \in ConcIds : (Steps(c) /\ call[c].superseded) => getStats' = getStats]_vars

\* C19 (amended): getStats() reflects the call that wrote last, whichever
\* call was started last: the stats change only in a step of one call, and
\* whenever a call, superseded or not, starts a backend's stream, getStats()
\* shows that backend with that call's model option and no failure reason.
C19_LastWriterWins ==
  [][ /\ getStats' # getStats => \E c \in ConcIds : Steps(c)
      /\ \A c \in ConcIds : \A t \in TierSet :
           StartedNow(c, t) =>
             /\ TierOfProvider(getStats'.provider) = t
             /\ getStats'.model = call[c].model
             /\ getStats'.fallbackReason = <<>> ]_vars

\* C19 witness: call b was started while call a was in flight and has
\* selected its backend, and getStats() shows the selection call a made
\* after that.
C19_Witness ==
  \E a, b \in ConcIds :
    /\ a # b
    /\ call[a].superseded /\ ~call[b].superseded
    /\ At(a, "start") # {} /\ At(b, "start") # {}
    /\ call[a].model # call[b].model
    /\ getStats.model = call[a].model
    /\ getStats.provider # "none"

----------------------------------------------------------------------------
\* C20: once streamChat holds the reader of the response body, the reader
\* is locked exactly while the generator is between its start and its end,
\* and the generator ends, whether at the end of the body, at the [DONE]
\* marker, by a rejected read or by the consumer's return(), with
\* reader.releaseLock() executed exactly once.
C20_ReaderReleased ==
  /\ sc.releases <= 1
  /\ sc.reader = "locked" <=> sc.pc \in {"reading", "lines"}
  /\ sc.reader = "none" => sc.releases = 0
  /\ (sc.pc \in ChatTerminal /\ sc.reader # "none") =>
       /\ sc.reader = "released"
       /\ sc.releases = 1

\* C20 witness: the consumer has abandoned the stream after a fragment and
\* the reader was released.
C20_Witness ==
  /\ sc.pc = "returned"
  /\ sc.out # <<>>
  /\ sc.lines # <<>>
  /\ sc.reader = "released"
  /\ sc.releases = 1

----------------------------------------------------------------------------
----------------------------------------------------------------------------
\* the outcome of call c is settled one way only, after at most three
\* streams
OneOutcome(c) ==
  /\ Cardinality(At(c, "start")) <= 3
  /\ call[c].pc = "done" => call[c].err = NoErr
  /\ call[c].pc = "failed" => call[c].err # NoErr
  /\ call[c].err # NoErr => call[c].pc = "failed"

\* C22: every call that has been made reaches a terminal outcome, normal
\* completion or an error, never both, after at most three tier attempts.
C22_CallTerminates ==
  /\ [](\A c \in CallIds : OneOutcome(c))
  /\ \A c \in CallIds : (call[c].pc # "idle") ~> (call[c].pc \in Terminal)

\* C22 witness: a call has completed on the third tier after the streams
\* of the first two raised.
C22_Witness ==
  \E c \in CallIds :
    /\ call[c].pc = "done"
    /\ Cardinality(At(c, "start")) = 3
    /\ Cardinality(At(c, "error")) = 2

----------------------------------------------------------------------------
\* a sequence without its repeated values, first occurrences kept
RECURSIVE Dedup(_)
Dedup(seq) ==
  IF seq = <<>> THEN <<>>
  ELSE LET front == Dedup(SubSeq(seq, 1, Len(seq) - 1))
           x == seq[Len(seq)]
       IN IF Includes(front, x) THEN front ELSE Append(front, x)

IsPhoto(v) == v.photo_data # ""

\* the photos of a visit list, in list order
PhotosOf(visits) ==
  LET withPhoto == SelectSeq(visits, IsPhoto)
  IN [i \in DOMAIN withPhoto |-> withPhoto[i].photo_data]

Current(x) == IF x.current # "" THEN <<x.current>> ELSE <<>>

\* C23: the image list holds no value twice and starts with current.photo
\* if there is one; when allVisits is given, the list is current.photo
\* followed by the visits' photos in list order without the values already
\* listed, and latest.photo_data does not enter it; when allVisits is
\* missing, the list holds nothing but current.photo and latest.photo_data.
C23_ImageList ==
  fmt.built =>
    LET x == fmt.ctx
    IN /\ fmt.images = Dedup(fmt.images)
       /\ x.current # "" => (fmt.images # <<>> /\ fmt.images[1] = x.current)
       /\ x.hasAll => fmt.images = Dedup(Current(x) \o PhotosOf(x.allVisits))
       /\ ~x.hasAll =>
            \A i \in DOMAIN fmt.images : fmt.images[i] \in {x.current, x.latest}

----------------------------------------------------------------------------
\* the user content is the list of the text block followed by one image
\* block per entry of images, in order
IsBlockList(content, images) ==
  /\ content.form = "list"
  /\ Len(content.blocks) = 1 + Len(images)
  /\ content.blocks[1] = TextBlock
  /\ \A i \in DOMAIN images :
       /\ content.blocks[i + 1].type \in {"image_url", "image"}
       /\ content.blocks[i + 1].image.body = images[i]

SystemThenUser(messages) ==
  /\ Len(messages) = 2
  /\ messages[1].role = "system"
  /\ messages[1].content = StringContent
  /\ messages[2].role = "user"

\* C24: the message list is a system entry followed by a user entry whose
\* content is the list of one text block and one image block per image, in
\* image-list order, also when there is no image.
C24_ContentAlwaysList ==
  fmt.built =>
    /\ SystemThenUser(fmt.messages)
    /\ IsBlockList(fmt.messages[2].content, fmt.images)

\* C24 (amended): the message list is a system entry followed by a user
\* entry; its content is the list of one text block and one image block per
\* image, in image-list order, for claude-code and whenever there is an
\* image, and the plain text for gpt-4o-mini and auto without an image.
C24_ContentListOrText ==
  fmt.built =>
    /\ SystemThenUser(fmt.messages)
    /\ IF fmt.model = "claude-code" \/ fmt.images # <<>>
         THEN IsBlockList(fmt.messages[2].content, fmt.images)
         ELSE fmt.messages[2].content = StringContent

\* C24 witness: an auto request without any image has been built.
C24_Witness ==
  /\ fmt.built
  /\ fmt.model = "auto"
  /\ fmt.images = <<>>
  /\ fmt.messages[2].content.form = "string"

----------------------------------------------------------------------------
\* C25: once the [DONE] frame has been read, the generator has ended and
\* what it has yielded stays as it is, whatever followed the frame in the
\* chunk and whatever the body still holds.
C25_MarkerEnds ==
  [][sc.exit = "marker" =>
       /\ sc.pc = "done"
       /\ sc'.pc \in {"done", "idle"}
       /\ sc'.pc = "done" => sc'.out = sc.out]_vars

\* C25 witness: the generator has ended at a [DONE] frame that was followed
\* by a token frame in the same chunk, with chunks left to read.
C25_Witness ==
  /\ sc.exit = "marker"
  /\ sc.pc = "done"
  /\ sc.lines # <<>>
  /\ Head(sc.lines) = "token"
  /\ sc.reads < MaxReads

----------------------------------------------------------------------------
\* the generator is about to handle a data frame whose payload is not JSON
AtBadFrame ==
  /\ ChatRunning("lines")
  /\ sc.lines # <<>>
  /\ Head(sc.lines) = "bad"

\* C26: handling a data frame whose payload is not valid JSON (and not the
\* [DONE] marker) ends streamChat with an error; the payload is not handed
\* to the caller and the frame is not passed over.
C26_MalformedFrameFails ==
  [][(AtBadFrame /\ sc' # sc) => (sc'.pc = "failed" /\ sc'.out = sc.out)]_vars

----------------------------------------------------------------------------
\* the fragments call c has taken from backend streams
Taken(c) == Cardinality(At(c, "yield"))

\* C27: a call never runs ahead of its caller: the fragments taken from
\* backend streams are at most the pulls the caller has issued, and while
\* no pull is pending every pull issued has been answered by a fragment.
C27_Backpressure ==
  \A c \in CallIds :
    /\ Taken(c) <= call[c].pulls
    /\ (call[c].pc \notin Terminal /\ ~call[c].pulled) => Taken(c) = call[c].pulls
    /\ call[c].pulled => Taken(c) = call[c].pulls - 1
    /\ call[c].pulls = 0 => Log(c) = <<>>

\* C27 witness: a call is suspended between two pulls with several
\* fragments delivered and its backend's stream still open.
C27_Witness ==
  \E c \in CallIds :
    /\ call[c].pc \notin Terminal \cup {"idle"}
    /\ ~call[c].pulled
    /\ call[c].pulls >= 2
    /\ Taken(c) = call[c].pulls

----------------------------------------------------------------------------
\* C28: what the holder of a getStats() result reads from it is not changed
\* by any step of a stream call, and a step of the holder (taking a result,
\* assigning to a field of the one it holds) does not change what
\* getStats() returns.
C28_StatsSnapshot ==
  [][ /\ (snap.held /\ call' # call) => Seen' = Seen
      /\ call' = call => getStats' = getStats ]_vars

\* C28 witness: the caller holds a result whose model differs from the one
\* getStats() returns now: a stream call has written the stats since.
C28_Witness ==
  /\ snap.held
  /\ ~snap.shared
  /\ Seen.model # getStats.model
  /\ Seen.model # "absent"

----------------------------------------------------------------------------
\* the errors that tell of a timeout
TimeoutShaped ==
  {"Request timeout", "Network error: timed out", "TimeoutError: timed out"}

EndedByTimeout == sc.pc = "failed" /\ sc.err \in TimeoutShaped

\* C29: when the server stops responding, before the response has started
\* or after fragments have been yielded, streamChat ends with the timeout
\* error and does not wait for ever; a reader it holds is released.
C29_StallTimesOut ==
  /\ sc.stalled ~> EndedByTimeout
  /\ [](sc.stalled => (Awaiting \/ (EndedByTimeout /\ sc.reader # "locked")))

\* C29 witness: the stream stalled after a fragment had been yielded and
\* has ended with the timeout error.
C29_Witness ==
  /\ sc.stalled
  /\ sc.out # <<>>
  /\ EndedByTimeout
  /\ sc.reader = "released"

----------------------------------------------------------------------------
\* C30: in no page does isAvailable() of the plugin's web fallback answer
\* available: true, localhost and development builds included.
C30_WebNeverAvailable ==
  web.available # "true"

----------------------------------------------------------------------------
IsTokenFrame(f) == f.kind = "token"

TokenFramesOf(tokens) == [i \in 1..Len(tokens) |-> TokenFrame(tokens[i])]

\* C31: the body the /api/chat route has written is one token frame per
\* token of the provider's stream, in the stream's order; the [DONE] frame
\* is written at most once, after the frame of the stream's last token and
\* only when the stream completed without error, and a response that was
\* ended carries it.
C31_ServerFrames ==
  srv.via = "route" =>
    LET all == SourceTokens(srv.world, srv.source)
        n == Len(srv.wire)
        dones == {i \in 1..n : srv.wire[i] = DoneFrame}
        body == SelectSeq(srv.wire, IsTokenFrame)
    IN /\ dones \subseteq {n}
       /\ Len(body) <= Len(all)
       /\ body = TokenFramesOf(SubSeq(all, 1, Len(body)))
       /\ dones # {} =>
            /\ body = TokenFramesOf(all)
            /\ ~SourceFails(srv.world, srv.source)
            /\ srv.err = ""
       /\ srv.pc = "ended" => dones # {}
       /\ srv.pc = "failed" => dones = {}

\* C31 witness: a response of two token frames and the end marker was ended.
C31_Witness ==
  /\ srv.via = "route"
  /\ srv.pc = "ended"
  /\ Len(srv.got) >= 2
  /\ srv.wire[Len(srv.wire)] = DoneFrame

----------------------------------------------------------------------------
\* the call went through HybridProvider.stream on a branch that tries the
\* API provider first
ApiTriedFirst ==
  \/ srv.via = "hybrid" /\ srv.strategy = "api-first"
  \/ /\ srv.via = "hybrid" /\ srv.strategy \in {"auto", "hybrid"}
     /\ srv.world.online /\ srv.allowAPI
  \/ srv.via = "route" /\ srv.strategy = "hybrid" /\ srv.world.online

\* C36: when the API provider's completion request is refused and the local
\* provider is available, a stream obtained from HybridProvider.stream under
\* 'api-first', or under the default strategy while online, gives the
\* consumer the local provider's tokens and no failure.
C36_HybridFallsBack ==
  ( /\ srv.pc \in {"ended", "failed"}
    /\ ApiTriedFirst
    /\ srv.world.apiFail /\ srv.world.apiLen = 0
    /\ srv.world.localUp /\ srv.world.hasModel /\ ~srv.world.localFail )
  => /\ srv.pc = "ended"
     /\ srv.got = SourceTokens(srv.world, "local")

----------------------------------------------------------------------------
\* C32: a call the caller abandons while a backend is streaming completes
\* there: the abandonment adds no probe, stream or error to what the call
\* did, records no failure reason, and nothing is done in that call or
\* written to the stats by it afterwards.
C32_CancelStopsCall ==
  [][\A c \in CallIds :
       /\ (~call[c].cancelled /\ call'[c].cancelled) =>
            /\ call'[c].pc = "done"
            /\ call'[c].err = NoErr
            /\ call'[c].log = call[c].log
            /\ stats' = stats
       /\ call[c].cancelled =>
            /\ call'[c] \in {call[c], IdleCall}
            /\ call'[c] = call[c] => stats' = stats]_vars

\* C32 witness: an auto-mode call was abandoned after a fragment of Gemini
\* Nano, with Llama Local available below it.
C32_Witness ==
  \E c \in CallIds :
    /\ call[c].cancelled
    /\ call[c].model = "auto"
    /\ call[c].pos >= 1
    /\ \A i \in At(c, "start") : Log(c)[i].tier = "nano"
    /\ At(c, "start") # {}
    /\ env.llama = "yes"
    /\ getStats.fallbackReason = <<>>

----------------------------------------------------------------------------
\* the caller has control: no pull of a call is pending
CallerInControl == \A c \in CallIds : ~call[c].pulled

\* C33: with one call at a time, getStats() never shows a fallbackReason to
\* the caller: not between two pulls of a call, and not after a call has
\* completed, was abandoned, or raised an explicit-mode or aggregate error.
C33_ReasonNeverSeen ==
  CallerInControl => getStats.fallbackReason = <<>>

\* C33 witness: the caller is back in control after an aggregate error of a
\* call in which a tier's stream had raised, so a reason had been recorded.
C33_Witness ==
  \E c \in CallIds :
    /\ CallerInControl
    /\ call[c].pc = "failed"
    /\ call[c].err.kind = "aggregate"
    /\ At(c, "error") # {}
    /\ getStats.fallbackReason = <<>>


----------------------------------------------------------------------------
----------------------------------------------------------------------------
\* what streamChat yields for a body that arrives in one chunk
WholeBody(body) == Consume(CompleteLines(body), <<>>).out

IsPrefix(a, b) == Len(a) <= Len(b) /\ a = SubSeq(b, 1, Len(a))

\* C35: for a body whose lines all end in a line feed, the fragments
\* streamChat has yielded when it ends are those it yields for the same
\* body in one chunk, however the transport cut the body into chunks, and
\* on the way they are a prefix of them.
C35_ChunkingIndependent ==
  /\ IsPrefix(rx.out, WholeBody(rx.body))
  /\ rx.pc = "done" => rx.out = WholeBody(rx.body)

\* C35 witness: a body of two or more fragments has been decoded to its end
\* with a chunk boundary inside a line.
C35_Witness ==
  /\ rx.pc = "done"
  /\ rx.carried
  /\ Len(rx.out) >= 2

----------------------------------------------------------------------------
\* call c, an explicit 'nano' request, was rejected as unavailable: it
\* raised before any stream was started
NanoRejected(c) ==
  /\ call[c].model = "nano"
  /\ call[c].pc = "failed"
  /\ At(c, "start") = {}
  /\ call[c].err.prefix = "Gemini Nano unavailable"

\* C37: in an environment for which checkAvailability() has reported, and
\* reports, geminiNano: true, an explicit 'nano' request is not rejected as
\* unavailable.  (The environment does not change while a call is under
\* way.)
C37_CheckAgreesWithStream ==
  (avail.returned /\ avail.geminiNano /\ avail = AvailResult(env))
    => \A c \in CallIds : ~NanoRejected(c)

----------------------------------------------------------------------------
\* C38: for a stream call on an initialized model whose response has
\* n >= 1 words, the streamChunk events listeners have received are the n
\* words in order with done=false, then one event with done=true and
\* nothing after it, and the call is resolved only once that last event was
\* delivered.
C38_ChunksInOrder ==
  LET n == WordsOf(plug)
      ev == plug.events
  IN n >= 1 =>
       /\ Len(ev) <= n + 1
       /\ \A i \in 1..Len(ev) :
            ev[i] = IF i <= n THEN Chunk(i, n) ELSE DoneChunk
       /\ plug.outcome = "resolved" => Len(ev) = n + 1
       /\ plug.outcome # "rejected"

\* C38 witness: a response of two or more words has been streamed and the
\* call resolved.
C38_Witness ==
  /\ WordsOf(plug) >= 2
  /\ plug.outcome = "resolved"
  /\ Len(plug.events) = WordsOf(plug) + 1

====
